---- MODULE Spec2Model ----
(***************************************************************************)
(* Model of the Mi Band 4 device client (src/src/band.rs) and the helpers  *)
(* it uses (src/src/utils.rs): connection lifecycle, characteristic        *)
(* resolution, the authentication handshake and the authenticated device   *)
(* operations.  Bytes are naturals in 0..255, byte strings are sequences.  *)
(***************************************************************************)
EXTENDS Integers, Sequences, FiniteSets, TLC

\* ------------------------------------------------------------------------
\* AES-128 / CBC / PKCS#7 as used by utils::encrypt_value
\* ------------------------------------------------------------------------

\* bitwise exclusive or of two naturals, bit by bit
RECURSIVE XorBits(_, _)
XorBits(a, b) ==
  IF a = 0 THEN b
  ELSE IF b = 0 THEN a
  ELSE (((a % 2) + (b % 2)) % 2) + 2 * XorBits(a \div 2, b \div 2)

\* the exclusive or of two 4-bit values, tabulated: XorTable[a + 1][b + 1]
XorTable ==
  SubSeq([a \in 1..16 |-> SubSeq([b \in 1..16 |-> XorBits(a - 1, b - 1)], 1, 16)], 1, 16)

\* bitwise exclusive or of two bytes
Xor(a, b) ==
  16 * XorTable[(a \div 16) + 1][(b \div 16) + 1] + XorTable[(a % 16) + 1][(b % 16) + 1]

\* the AES substitution box, indexed by byte value + 1
SBox ==
  <<99, 124, 119, 123, 242, 107, 111, 197, 48, 1, 103, 43, 254, 215, 171, 118,
    202, 130, 201, 125, 250, 89, 71, 240, 173, 212, 162, 175, 156, 164, 114, 192,
    183, 253, 147, 38, 54, 63, 247, 204, 52, 165, 229, 241, 113, 216, 49, 21,
    4, 199, 35, 195, 24, 150, 5, 154, 7, 18, 128, 226, 235, 39, 178, 117,
    9, 131, 44, 26, 27, 110, 90, 160, 82, 59, 214, 179, 41, 227, 47, 132,
    83, 209, 0, 237, 32, 252, 177, 91, 106, 203, 190, 57, 74, 76, 88, 207,
    208, 239, 170, 251, 67, 77, 51, 133, 69, 249, 2, 127, 80, 60, 159, 168,
    81, 163, 64, 143, 146, 157, 56, 245, 188, 182, 218, 33, 16, 255, 243, 210,
    205, 12, 19, 236, 95, 151, 68, 23, 196, 167, 126, 61, 100, 93, 25, 115,
    96, 129, 79, 220, 34, 42, 144, 136, 70, 238, 184, 20, 222, 94, 11, 219,
    224, 50, 58, 10, 73, 6, 36, 92, 194, 211, 172, 98, 145, 149, 228, 121,
    231, 200, 55, 109, 141, 213, 78, 169, 108, 86, 244, 234, 101, 122, 174, 8,
    186, 120, 37, 46, 28, 166, 180, 198, 232, 221, 116, 31, 75, 189, 139, 138,
    112, 62, 181, 102, 72, 3, 246, 14, 97, 53, 87, 185, 134, 193, 29, 158,
    225, 248, 152, 17, 105, 217, 142, 148, 155, 30, 135, 233, 206, 85, 40, 223,
    140, 161, 137, 13, 191, 230, 66, 104, 65, 153, 45, 15, 176, 84, 187, 22>>

\* round constants of the AES-128 key schedule
Rcon == <<1, 2, 4, 8, 16, 32, 64, 128, 27, 54>>

\* multiplication by x in GF(2^8) modulo x^8 + x^4 + x^3 + x + 1
XTime(a) == IF a >= 128 THEN Xor((2 * a) % 256, 27) ELSE 2 * a

\* the 16 values of a function on 1..16 as a sequence (computed once)
Bytes16(f) == SubSeq(f, 1, 16)

Xor16(a, b) == Bytes16([i \in 1..16 |-> Xor(a[i], b[i])])

SubBytes(s) == Bytes16([i \in 1..16 |-> SBox[s[i] + 1]])

\* the state is column-major: byte i (1-based) is row (i-1)%4, column (i-1)\div 4;
\* row r is rotated left by r columns
ShiftRows(s) ==
  Bytes16([i \in 1..16 |->
             s[((i - 1) % 4) + 4 * ((((i - 1) \div 4) + ((i - 1) % 4)) % 4) + 1]])

\* byte of row r in column c after MixColumns: 2*a0 + 3*a1 + a2 + a3
MixByte(s, c, r) ==
  Xor(Xor(XTime(s[4 * c + r + 1]),
          Xor(XTime(s[4 * c + ((r + 1) % 4) + 1]), s[4 * c + ((r + 1) % 4) + 1])),
      Xor(s[4 * c + ((r + 2) % 4) + 1], s[4 * c + ((r + 3) % 4) + 1]))

MixColumns(s) ==
  Bytes16([i \in 1..16 |-> MixByte(s, (i - 1) \div 4, (i - 1) % 4)])

\* round key r from round key r-1 (AES-128 key expansion): the first word is
\* the old one xor SubWord(RotWord(last word)) xor Rcon, every later word the
\* old one xor the new word before it
NextRoundKey(k, r) ==
  LET w[i \in 1..16] ==
        IF i <= 4
          THEN Xor(Xor(k[i], SBox[k[13 + (i % 4)] + 1]), IF i = 1 THEN Rcon[r] ELSE 0)
          ELSE Xor(k[i], w[i - 4])
  IN  Bytes16(w)

\* round r on state s with round key rk; the last round has no MixColumns
AesRound(s, rk, r) ==
  Xor16(IF r = 10 THEN ShiftRows(SubBytes(s)) ELSE MixColumns(ShiftRows(SubBytes(s))),
        rk)

RECURSIVE AesRounds(_, _, _)

\* st is the state after round r (the test of its length makes TLC compute
\* it before the next round starts)
AesAfterRound(st, rk, r) ==
  IF Len(st) = 16 /\ Len(rk) = 16 /\ r < 10 THEN AesRounds(st, rk, r + 1) ELSE st

AesWithRoundKey(s, rk, r) == AesAfterRound(AesRound(s, rk, r), rk, r)

\* rounds r..10 applied to state s, k being round key r-1
AesRounds(s, k, r) == AesWithRoundKey(s, NextRoundKey(k, r), r)

\* one AES-128 block encryption
AesEncryptBlock(key, block) == AesRounds(Xor16(block, key), key, 1)

Zeros(n) == [i \in 1..n |-> 0]

\* PKCS#7: append p bytes of value p, p = 16 - (len mod 16)
Pkcs7Pad(value) ==
  LET p == 16 - (Len(value) % 16) IN value \o [i \in 1..p |-> p]

RECURSIVE CbcEncrypt(_, _, _)

\* c is the ciphertext of the first block of data
CbcAfterBlock(key, c, data) ==
  IF Len(c) = 16 THEN c \o CbcEncrypt(key, c, SubSeq(data, 17, Len(data))) ELSE c

\* CBC chaining over whole blocks, prev being the previous ciphertext block
CbcEncrypt(key, prev, data) ==
  IF Len(data) = 0 THEN <<>>
  ELSE CbcAfterBlock(key, AesEncryptBlock(key, Xor16(SubSeq(data, 1, 16), prev)), data)

\* Option<T>: None is the empty sequence, Some(v) the one-element sequence
None == <<>>
Some(v) == <<v>>
IsSome(o) == Len(o) = 1
Unwrap(o) == o[1]

\* utils::encrypt_value: zero IV, 48-byte output buffer, None when the padded
\* value does not fit (the key must have 16 bytes)
encrypt_value(key, value) ==
  LET padded == Pkcs7Pad(value)
      ct == CbcEncrypt(key, Zeros(16), padded)
  IN  IF Len(padded) > 48 THEN None
      ELSE Some(ct \o Zeros(48 - Len(ct)))

\* ------------------------------------------------------------------------
\* Bounds of the model
\* ------------------------------------------------------------------------

\* notification frames read by one authenticate() call
MaxFrames == 2

\* characteristic resolutions that may succeed (each yields a fresh set)
MaxResolve == 2

\* MTU reported by acquire_notify (the size of the read buffer)
NotifyMtu == 23

\* the longest of the short payloads handed to write_chunked
MaxPayload == 36

\* signals the bus delivers to the device event stream
MaxSignals == 2

\* reads of the music notification channel that complete
MaxReads == 3

\* futures of the window that are spawned and not finished at one time
MaxTasks == 2

\* ------------------------------------------------------------------------
\* Identifiers (band.rs constants)
\* ------------------------------------------------------------------------

SERVICE_BAND_0 == "0000fee0-0000-1000-8000-00805f9b34fb"
SERVICE_BAND_1 == "0000fee1-0000-1000-8000-00805f9b34fb"
SERVICE_DEVICE_INFO == "0000180a-0000-1000-8000-00805f9b34fb"
SERVICE_NOTIFICATION == "00001811-0000-1000-8000-00805f9b34fb"
CHAR_BATTERY == "00000006-0000-3512-2118-0009af100700"
CHAR_STEPS == "00000007-0000-3512-2118-0009af100700"
CHAR_AUTH == "00000009-0000-3512-2118-0009af100700"
CHAR_SOFT_REV == "00002a28-0000-1000-8000-00805f9b34fb"
CHAR_TIME == "00002a2b-0000-1000-8000-00805f9b34fb"
CHAR_CONFIG == "00000003-0000-3512-2118-0009af100700"
CHAR_SETTINGS == "00000008-0000-3512-2118-0009af100700"
CHAR_ALERT == "00002a46-0000-1000-8000-00805f9b34fb"
CHAR_CHUNKED_TRANSFER == "00000020-0000-3512-2118-0009af100700"
CHAR_MUSIC_NOTIFICATIONS == "00000010-0000-3512-2118-0009af100700"

\* BandError variants that the modelled operations return
BandError ==
  {"DBusError", "IoError", "MissingServicesOrChars", "NotInitialized",
   "RequiresAuth", "InvalidAuthKey", "InvalidLockPin"}

\* ------------------------------------------------------------------------
\* Inputs: what the daemon and the device may answer, what callers pass
\* ------------------------------------------------------------------------

\* a GATT tree as get_device_characteristics returns it:
\* service UUID -> set of characteristic UUIDs found under that service
FullTree ==
  [sv \in {SERVICE_BAND_0, SERVICE_BAND_1, SERVICE_DEVICE_INFO, SERVICE_NOTIFICATION} |->
     CASE sv = SERVICE_BAND_0 ->
            {CHAR_BATTERY, CHAR_STEPS, CHAR_TIME, CHAR_CONFIG, CHAR_SETTINGS,
             CHAR_CHUNKED_TRANSFER, CHAR_MUSIC_NOTIFICATIONS}
       [] sv = SERVICE_BAND_1 -> {CHAR_AUTH}
       [] sv = SERVICE_DEVICE_INFO -> {CHAR_SOFT_REV}
       [] sv = SERVICE_NOTIFICATION -> {CHAR_ALERT}]

\* the tree without one service
WithoutService(tree, sv) == [x \in (DOMAIN tree) \ {sv} |-> tree[x]]

\* the tree without one characteristic of one service
WithoutChar(tree, sv, ch) == [tree EXCEPT ![sv] = @ \ {ch}]

\* the tree with a characteristic moved from one service to another
MovedChar(tree, from, to, ch) ==
  [tree EXCEPT ![from] = @ \ {ch}, ![to] = @ \cup {ch}]

\* the tree with one more service
WithService(tree, sv, chs) ==
  [x \in (DOMAIN tree) \cup {sv} |-> IF x = sv THEN chs ELSE tree[x]]

\* a service the band offers and the client does not use
SERVICE_OTHER == "0000180f-0000-1000-8000-00805f9b34fb"

\* the trees the daemon may report: the full tree, the full tree with more in
\* it, and the full tree with one service missing, with one characteristic
\* missing, or with one characteristic under another service
DeviceTrees ==
  {FullTree,
   WithService(FullTree, SERVICE_OTHER, {CHAR_BATTERY}),
   MovedChar(FullTree, SERVICE_BAND_1, SERVICE_BAND_0, CHAR_AUTH),
   MovedChar(FullTree, SERVICE_BAND_0, SERVICE_BAND_1, CHAR_BATTERY),
   MovedChar(FullTree, SERVICE_NOTIFICATION, SERVICE_DEVICE_INFO, CHAR_ALERT),
   MovedChar(FullTree, SERVICE_DEVICE_INFO, SERVICE_BAND_0, CHAR_SOFT_REV)}
  \cup {WithoutService(FullTree, sv) : sv \in DOMAIN FullTree}
  \cup UNION {{WithoutChar(FullTree, sv, ch) : ch \in FullTree[sv]} :
                sv \in DOMAIN FullTree}

\* 16-byte auth keys a caller passes
Key1 == <<0, 1, 2, 3, 4, 5, 6, 7, 8, 9, 10, 11, 12, 13, 14, 15>>
Key2 == <<43, 126, 21, 22, 40, 174, 210, 166, 171, 247, 21, 136, 9, 207, 79, 60>>
AuthKeys == {Key1, Key2}

\* 16-byte nonces the band sends
Nonce1 == <<0, 17, 34, 51, 68, 85, 102, 119, 136, 153, 170, 187, 204, 221, 238, 255>>
Nonce2 == <<50, 67, 246, 168, 136, 90, 48, 141, 49, 49, 152, 162, 224, 55, 7, 52>>
Nonces == {Nonce1, Nonce2}

RestartFrame == <<16, 1, 1>>
ChallengeFrame(nonce) == <<16, 2, 1>> \o nonce
SuccessFrame == <<16, 3, 1>>
RejectFrame == <<16, 3, 8>>
\* a well-formed header with a code the client does not know
UnknownFrame == <<16, 4, 1>>
\* the first two bytes of a success frame only
ShortFrame == <<16, 3>>
\* a success code behind a first byte that is not 0x10
WrongHeadFrame == <<17, 3, 1>>
\* a challenge header followed by fewer than 16 bytes
ShortChallengeFrame == <<16, 2, 1, 170, 187>>
\* a read of zero bytes
EmptyFrame == <<>>

\* what one read of the notification channel may deliver
Frames ==
  {RestartFrame, SuccessFrame, RejectFrame, UnknownFrame, ShortFrame,
   WrongHeadFrame, ShortChallengeFrame, EmptyFrame}
  \cup {ChallengeFrame(n) : n \in Nonces}

\* ------------------------------------------------------------------------
\* State
\* ------------------------------------------------------------------------

VARIABLES
  connected,          \* the daemon's Connected property of the device
  chars,              \* MiBand.chars: None, or Some(id of the resolved set)
  authenticated,      \* MiBand.authenticated
  pc,                 \* position of the running call, "idle" between calls
  op,                 \* the running (or last) operation
  result,             \* "Pending" in a call, then "Ok" or the BandError returned
  ret,                \* the value returned with "Ok", None if there is none
  io,                 \* requests issued (and failed reads) in the running (or last) call
  auth_key,           \* authenticate: the key argument
  buf,                \* authenticate: the read buffer
  len,                \* authenticate: the length of the last read
  nread,              \* authenticate: frames read in this call
  pending,            \* authenticate: the frame about to be written
  was_connected,      \* initialize: the local was_connected
  services_resolved,  \* fetch_chars: the last observed ServicesResolved value
  connectedBefore,    \* connected when the running (or last) initialize started
  authBefore,         \* authenticated when the running (or last) call started
  charsBefore,        \* chars when the running (or last) call started
  media,              \* set_media_info: the media argument
  message_type,       \* write_chunked: the message_type argument
  payload,            \* write_chunked: the payload argument
  processed_chunks,   \* write_chunked: the frames to write
  adapter_path,       \* BluezSession: the path of the adapter, None before new()
  streaming,          \* stream_device_events: the two signal streams exist
  added_objects,      \* InterfacesAdded signals the stream has not yet taken
  removed_objects,    \* InterfacesRemoved signals the stream has not yet taken
  arrived,            \* every signal delivered to the two streams so far
  events,             \* the events the device event stream has emitted
  resolved,           \* the last get_device_characteristics call, None before
  notify_stream,      \* MusicEventListener: what the band wrote and nobody read
  waker,              \* the consumer's waker is registered with notify_stream
  task,               \* the consumer of the music events
  fused,              \* the music event stream has ended
  music_reads,        \* the reads poll_next has completed
  music_events,       \* the events the music event stream has emitted
  spawned,            \* the futures on the main loop: kind, await, device, channel
  band_closed_cell,   \* MiBandWindowImpl.band_closed: 0 (None) or its channel
  band_closed_borrow, \* the future that holds band_closed mutably, 0 if none
  closed,             \* the channels of band_closed with a () to receive
  current_device,     \* MiBandWindowImpl.current_device: "none" or the device
  readers,            \* the futures that hold a read guard of current_device
  writer,             \* the future that holds or is next to hold the write guard
  store_mutex,        \* the future that holds the guard of the store, 0 if none
  main_loop,          \* "running", "panicked", or "blocked" in Mutex::lock
  disconnected        \* devices asked to disconnect since they were connected

vars ==
  <<connected, chars, authenticated, pc, op, result, ret, io, auth_key, buf,
    len, nread, pending, was_connected, services_resolved, connectedBefore,
    authBefore, charsBefore, media, message_type, payload, processed_chunks,
    adapter_path, streaming, added_objects, removed_objects, arrived, events,
    resolved, notify_stream, waker, task, fused, music_reads, music_events,
    spawned, band_closed_cell, band_closed_borrow, closed, current_device,
    readers, writer, store_mutex, main_loop, disconnected>>

\* the state of one MiBand client
clientVars ==
  <<connected, chars, authenticated, pc, op, result, ret, io, auth_key, buf,
    len, nread, pending, was_connected, services_resolved, connectedBefore,
    authBefore, charsBefore, media, message_type, payload, processed_chunks>>

\* the state of a BluezSession and of its device event stream
busVars ==
  <<adapter_path, streaming, added_objects, removed_objects, arrived, events,
    resolved>>

\* the state of a MusicEventListener and of its consumer
listenerVars == <<notify_stream, waker, task, fused, music_reads, music_events>>

\* the state of the window
windowVars ==
  <<spawned, band_closed_cell, band_closed_borrow, closed, current_device,
    readers, writer, store_mutex, main_loop, disconnected>>

\* the locals of authenticate()
authLocals == <<auth_key, buf, len, nread, pending>>
\* the locals of initialize() / fetch_chars(), and the link at its start
initLocals == <<was_connected, services_resolved, connectedBefore>>

\* the locals of set_media_info() / write_chunked()
chunkLocals == <<media, message_type, payload, processed_chunks>>

\* one request to the daemon or the device: kind, characteristic, payload, outcome
Event(k, c, data, ok) == [k |-> k, c |-> c, data |-> data, ok |-> ok]

\* MiBand::from_discovered_device; the device may or may not be connected
Init ==
  /\ connected \in BOOLEAN
  /\ chars = None
  /\ authenticated = FALSE
  /\ pc = "idle"
  /\ op = "from_discovered_device"
  /\ result = "Ok"
  /\ ret = None
  /\ io = <<>>
  /\ auth_key = <<>>
  /\ buf = <<>>
  /\ len = 0
  /\ nread = 0
  /\ pending = <<>>
  /\ was_connected = FALSE
  /\ services_resolved = FALSE
  /\ connectedBefore = FALSE
  /\ authBefore = FALSE
  /\ charsBefore = None
  /\ media = None
  /\ message_type = 0
  /\ payload = <<>>
  /\ processed_chunks = <<>>
  /\ adapter_path = None
  /\ streaming = FALSE
  /\ added_objects = <<>>
  /\ removed_objects = <<>>
  /\ arrived = <<>>
  /\ events = <<>>
  /\ resolved = None
  /\ notify_stream = <<>>
  /\ waker = FALSE
  /\ task = "none"
  /\ fused = FALSE
  /\ music_reads = <<>>
  /\ music_events = <<>>
  /\ spawned = [t \in 1..MaxTasks |->
                  [kind |-> "none", pc |-> "done", device |-> "none", chan |-> 0]]
  /\ band_closed_cell = 0
  /\ band_closed_borrow = 0
  /\ closed = {}
  /\ current_device = "none"
  /\ readers = {}
  /\ writer = 0
  /\ store_mutex = 0
  /\ main_loop = "running"
  /\ disconnected = {}

\* a call starts: remember the operation and the state it started from
Call(name) ==
  /\ pc = "idle"
  /\ op' = name
  /\ authBefore' = authenticated
  /\ charsBefore' = chars
  /\ UNCHANGED <<busVars, listenerVars, windowVars>>

\* a call returns r
Return(r) ==
  /\ pc' = "idle"
  /\ result' = r

\* the locals of a call are dropped when the next call starts
AuthLocalsCleared ==
  /\ auth_key' = <<>>
  /\ buf' = <<>>
  /\ len' = 0
  /\ nread' = 0
  /\ pending' = <<>>

InitLocalsCleared ==
  /\ was_connected' = FALSE
  /\ services_resolved' = FALSE
  /\ connectedBefore' = FALSE

ChunkLocalsCleared ==
  /\ media' = None
  /\ message_type' = 0
  /\ payload' = <<>>
  /\ processed_chunks' = <<>>

\* ------------------------------------------------------------------------
\* initialize / fetch_chars
\* ------------------------------------------------------------------------

\* initialize as it would be if it asked for a connection whatever
\* is_connected() answered
initialize_always_connects(observed) ==
  /\ Call("initialize")
  /\ ChunkLocalsCleared
  /\ observed \in {connected, FALSE}
  /\ was_connected' = observed
  /\ services_resolved' = FALSE
  /\ connectedBefore' = connected
  /\ io' = <<>>
  /\ ret' = None
  /\ AuthLocalsCleared
  /\ pc' = "connect" /\ result' = "Pending"
  /\ UNCHANGED <<connected, chars, authenticated>>

\* initialize() up to the answer of is_connected(); observed is that answer
\* (a failed property read counts as false)
initialize(observed) ==
  /\ Call("initialize")
  /\ ChunkLocalsCleared
  /\ observed \in {connected, FALSE}
  /\ was_connected' = observed
  /\ services_resolved' = FALSE
  /\ connectedBefore' = connected
  /\ io' = <<>>
  /\ ret' = None
  /\ AuthLocalsCleared
  /\ IF ~observed
       THEN pc' = "connect" /\ result' = "Pending"
       ELSE IF chars = None
         THEN pc' = "fetch_poll" /\ result' = "Pending"
         ELSE Return("Ok")
  /\ UNCHANGED <<connected, chars, authenticated>>

\* initialize_connect as it would be if a cached characteristic set were kept
\* on a fresh connection
initialize_connect_keeps_cache(ok) ==
  /\ pc = "connect"
  /\ io' = Append(io, Event("connect", "", <<>>, ok))
  /\ IF ok
       THEN /\ connected' = TRUE
            /\ IF IsSome(chars)
                 THEN Return("Ok")
                 ELSE pc' = "fetch_poll" /\ UNCHANGED result
       ELSE /\ Return("DBusError")
            /\ UNCHANGED connected
  /\ UNCHANGED <<chars, authenticated, op, ret, authLocals, initLocals, chunkLocals, busVars, listenerVars, windowVars,
                 authBefore, charsBefore>>

\* self.device.connect().await?
initialize_connect(ok) ==
  /\ pc = "connect"
  /\ io' = Append(io, Event("connect", "", <<>>, ok))
  /\ IF ok
       THEN /\ connected' = TRUE
            \* !was_connected holds here, so the characteristics are fetched
            /\ pc' = "fetch_poll"
            /\ UNCHANGED result
       ELSE /\ Return("DBusError")
            /\ UNCHANGED connected
  /\ UNCHANGED <<chars, authenticated, op, ret, authLocals, initLocals, chunkLocals, busVars, listenerVars, windowVars,
                 authBefore, charsBefore>>

\* fetch_chars_poll as it would be if the polled value were not looked at
fetch_chars_poll_unchecked(value) ==
  /\ pc = "fetch_poll"
  /\ services_resolved' = value
  /\ pc' = "fetch_resolve"
  /\ UNCHANGED <<connected, chars, authenticated, op, result, ret, io,
                 authLocals, chunkLocals, busVars, listenerVars, windowVars,
                 was_connected, connectedBefore, authBefore, charsBefore>>

\* fetch_chars: the poll of the current ServicesResolved value
\* (a failed property read counts as false)
fetch_chars_poll(value) ==
  /\ pc = "fetch_poll"
  /\ services_resolved' = value
  /\ pc' = IF value THEN "fetch_resolve" ELSE "fetch_wait"
  /\ UNCHANGED <<connected, chars, authenticated, op, result, ret, io,
                 authLocals, chunkLocals, busVars, listenerVars, windowVars,
                 was_connected, connectedBefore, authBefore, charsBefore>>

\* fetch_chars: one item of the ServicesResolved change stream; the loop
\* ends at the first item whose value is Ok(true). (The stream of the caching
\* proxy the client holds yields items for as long as the proxy lives, so
\* the loop does not end on the end of the stream.)
fetch_chars_wait(value) ==
  /\ pc = "fetch_wait"
  /\ services_resolved' = value
  /\ pc' = IF value THEN "fetch_resolve" ELSE "fetch_wait"
  /\ UNCHANGED <<connected, chars, authenticated, op, result, ret, io,
                 authLocals, chunkLocals, busVars, listenerVars, windowVars,
                 was_connected, connectedBefore, authBefore, charsBefore>>

\* HasRequiredChars as it would be if a characteristic were accepted under
\* any service of the tree
HasRequiredChars_any_service(services) ==
  /\ {SERVICE_BAND_0, SERVICE_BAND_1, SERVICE_DEVICE_INFO, SERVICE_NOTIFICATION}
       \subseteq DOMAIN services
  /\ {CHAR_BATTERY, CHAR_STEPS, CHAR_TIME, CHAR_CONFIG, CHAR_SETTINGS,
      CHAR_CHUNKED_TRANSFER, CHAR_MUSIC_NOTIFICATIONS, CHAR_SOFT_REV,
      CHAR_AUTH, CHAR_ALERT}
       \subseteq UNION {services[sv] : sv \in DOMAIN services}

\* the match of fetch_chars: the four services and the ten characteristics
HasRequiredChars(services) ==
  /\ {SERVICE_BAND_0, SERVICE_BAND_1, SERVICE_DEVICE_INFO, SERVICE_NOTIFICATION}
       \subseteq DOMAIN services
  /\ {CHAR_BATTERY, CHAR_STEPS, CHAR_TIME, CHAR_CONFIG, CHAR_SETTINGS,
      CHAR_CHUNKED_TRANSFER, CHAR_MUSIC_NOTIFICATIONS}
       \subseteq services[SERVICE_BAND_0]
  /\ CHAR_SOFT_REV \in services[SERVICE_DEVICE_INFO]
  /\ CHAR_AUTH \in services[SERVICE_BAND_1]
  /\ CHAR_ALERT \in services[SERVICE_NOTIFICATION]

\* the id of a freshly built characteristic set: never the id of the set held
NextCharsId(c) == IF c = None THEN 1 ELSE (Unwrap(c) % MaxResolve) + 1

\* fetch_chars_resolve as it would be if the characteristics that were found
\* were stored although some are missing
fetch_chars_resolve_partial(services) ==
  /\ pc = "fetch_resolve"
  /\ io' = Append(io, Event("get_device_characteristics", "", <<>>, TRUE))
  /\ chars' = Some(NextCharsId(chars))
  /\ Return(IF HasRequiredChars(services) THEN "Ok" ELSE "MissingServicesOrChars")
  /\ UNCHANGED <<connected, authenticated, op, ret, authLocals, initLocals, chunkLocals, busVars, listenerVars, windowVars,
                 authBefore, charsBefore>>

\* fetch_chars, from get_device_characteristics on, and the assignment of
\* its result in initialize(); services is the tree the daemon reports
fetch_chars_resolve(services) ==
  /\ pc = "fetch_resolve"
  /\ io' = Append(io, Event("get_device_characteristics", "", <<>>, TRUE))
  /\ IF HasRequiredChars(services)
       THEN /\ chars' = Some(NextCharsId(chars))
            /\ Return("Ok")
       ELSE /\ Return("MissingServicesOrChars")
            /\ UNCHANGED chars
  /\ UNCHANGED <<connected, authenticated, op, ret, authLocals, initLocals, chunkLocals, busVars, listenerVars, windowVars,
                 authBefore, charsBefore>>

\* fetch_chars_resolve_error as it would be if a failed resolution dropped
\* the cached characteristic set
fetch_chars_resolve_error_drops_cache ==
  /\ pc = "fetch_resolve"
  /\ io' = Append(io, Event("get_device_characteristics", "", <<>>, FALSE))
  /\ chars' = None
  /\ Return("DBusError")
  /\ UNCHANGED <<connected, authenticated, op, ret, authLocals,
                 initLocals, chunkLocals, busVars, listenerVars, windowVars, authBefore, charsBefore>>

\* get_device_characteristics fails
fetch_chars_resolve_error ==
  /\ pc = "fetch_resolve"
  /\ io' = Append(io, Event("get_device_characteristics", "", <<>>, FALSE))
  /\ Return("DBusError")
  /\ UNCHANGED <<connected, chars, authenticated, op, ret, authLocals,
                 initLocals, chunkLocals, busVars, listenerVars, windowVars, authBefore, charsBefore>>

\* ------------------------------------------------------------------------
\* disconnect
\* ------------------------------------------------------------------------

\* disconnect as it would be if it dropped the characteristic set as well
disconnect_drops_chars(ok) ==
  /\ Call("disconnect")
  /\ ChunkLocalsCleared
  /\ io' = <<Event("disconnect", "", <<>>, ok)>>
  /\ ret' = None
  /\ AuthLocalsCleared
  /\ InitLocalsCleared
  /\ IF ok
       THEN /\ connected' = FALSE
            /\ authenticated' = FALSE
            /\ chars' = None
            /\ Return("Ok")
       ELSE /\ Return("DBusError")
            /\ UNCHANGED <<connected, authenticated, chars>>

\* self.device.disconnect().await?; self.authenticated = false
disconnect(ok) ==
  /\ Call("disconnect")
  /\ ChunkLocalsCleared
  /\ io' = <<Event("disconnect", "", <<>>, ok)>>
  /\ ret' = None
  /\ AuthLocalsCleared
  /\ InitLocalsCleared
  /\ IF ok
       THEN /\ connected' = FALSE
            /\ authenticated' = FALSE
            /\ Return("Ok")
       ELSE /\ Return("DBusError")
            /\ UNCHANGED <<connected, authenticated>>
  /\ UNCHANGED chars

\* the link drops without a disconnect request
LinkDrop ==
  /\ connected
  /\ pc # "panicked"
  /\ connected' = FALSE
  /\ UNCHANGED <<chars, authenticated, pc, op, result, ret, io, authLocals,
                 initLocals, chunkLocals, busVars, listenerVars, windowVars, authBefore, charsBefore>>

\* ------------------------------------------------------------------------
\* authenticate
\* ------------------------------------------------------------------------

\* authenticate as it would be without the test of self.chars
authenticate_unchecked(key) ==
  /\ Call("authenticate")
  /\ ChunkLocalsCleared
  /\ auth_key' = key
  /\ buf' = <<>>
  /\ len' = 0
  /\ nread' = 0
  /\ pending' = <<>>
  /\ io' = <<>>
  /\ ret' = None
  /\ InitLocalsCleared
  /\ pc' = "acquire_notify"
  /\ result' = "Pending"
  /\ UNCHANGED <<connected, chars, authenticated>>

\* authenticate(auth_key) up to its first await
authenticate(key) ==
  /\ Call("authenticate")
  /\ ChunkLocalsCleared
  /\ auth_key' = key
  /\ buf' = <<>>
  /\ len' = 0
  /\ nread' = 0
  /\ pending' = <<>>
  /\ io' = <<>>
  /\ ret' = None
  /\ InitLocalsCleared
  /\ IF IsSome(chars)
       THEN pc' = "acquire_notify" /\ result' = "Pending"
       ELSE Return("NotInitialized")
  /\ UNCHANGED <<connected, chars, authenticated>>

\* auth_acquire_notify as it would be if a failed acquisition were ignored
auth_acquire_notify_unchecked(ok) ==
  /\ pc = "acquire_notify"
  /\ io' = Append(io, Event("acquire_notify", CHAR_AUTH, <<>>, ok))
  /\ pc' = "acquire_write"
  /\ UNCHANGED <<connected, chars, authenticated, op, result, ret, authLocals,
                 initLocals, chunkLocals, busVars, listenerVars, windowVars, authBefore, charsBefore>>

\* auth.acquire_notify_stream().await?
auth_acquire_notify(ok) ==
  /\ pc = "acquire_notify"
  /\ io' = Append(io, Event("acquire_notify", CHAR_AUTH, <<>>, ok))
  /\ IF ok
       THEN pc' = "acquire_write" /\ UNCHANGED result
       ELSE Return("DBusError")
  /\ UNCHANGED <<connected, chars, authenticated, op, ret, authLocals,
                 initLocals, chunkLocals, busVars, listenerVars, windowVars, authBefore, charsBefore>>

\* auth.acquire_write_stream().await?
auth_acquire_write(ok) ==
  /\ pc = "acquire_write"
  /\ io' = Append(io, Event("acquire_write", CHAR_AUTH, <<>>, ok))
  /\ IF ok
       THEN pc' = "auth_start" /\ UNCHANGED result
       ELSE Return("DBusError")
  /\ UNCHANGED <<connected, chars, authenticated, op, ret, authLocals,
                 initLocals, chunkLocals, busVars, listenerVars, windowVars, authBefore, charsBefore>>

\* write.write(&[0x02, 0x00]).await?; let mut buf = vec![0; notify_mtu]
auth_start(ok) ==
  /\ pc = "auth_start"
  /\ io' = Append(io, Event("write", CHAR_AUTH, <<2, 0>>, ok))
  /\ IF ok
       THEN /\ buf' = Zeros(NotifyMtu)
            /\ pc' = "auth_read"
            /\ UNCHANGED result
       ELSE /\ Return("IoError")
            /\ UNCHANGED buf
  /\ UNCHANGED <<connected, chars, authenticated, op, ret, auth_key, len,
                 nread, pending, initLocals, chunkLocals, busVars, listenerVars, windowVars, authBefore, charsBefore>>

\* &[0x01, 0x01]: signal to start again
auth_on_restart ==
  /\ pending' = <<2, 0>>
  /\ pc' = "auth_write"
  /\ UNCHANGED <<authenticated, result>>

\* auth_on_challenge as it would be if the value were sliced one byte early
auth_on_challenge_early_slice(b) ==
  IF Len(b) < 19
    THEN pc' = "panicked" /\ UNCHANGED <<authenticated, result, pending>>
    ELSE LET value == SubSeq(b, 3, 18)
             encrypted == encrypt_value(auth_key, value)
         IN  IF IsSome(encrypted)
               THEN /\ pending' = <<3, 0>> \o SubSeq(Unwrap(encrypted), 1, 16)
                    /\ pc' = "auth_write"
                    /\ UNCHANGED <<authenticated, result>>
               ELSE /\ pc' = "auth_read"
                    /\ UNCHANGED <<authenticated, result, pending>>

\* &[0x02, 0x01]: the band has sent a 16 byte value to encrypt; the answer
\* is 0x03 0x00 <first 16 bytes of the encrypted value>
auth_on_challenge(b) ==
  \* buf[3..19] is out of range for a buffer shorter than 19 bytes
  IF Len(b) < 19
    THEN pc' = "panicked" /\ UNCHANGED <<authenticated, result, pending>>
    ELSE LET value == SubSeq(b, 4, 19)
             encrypted == encrypt_value(auth_key, value)
         IN  IF IsSome(encrypted)
               THEN /\ pending' = <<3, 0>> \o SubSeq(Unwrap(encrypted), 1, 16)
                    /\ pc' = "auth_write"
                    /\ UNCHANGED <<authenticated, result>>
               ELSE /\ pc' = "auth_read"
                    /\ UNCHANGED <<authenticated, result, pending>>

\* auth_on_success as it would be without the return
auth_on_success_no_return ==
  /\ authenticated' = TRUE
  /\ pc' = "auth_read"
  /\ UNCHANGED <<result, pending>>

\* &[0x03, 0x01]: success
auth_on_success ==
  /\ authenticated' = TRUE
  /\ Return("Ok")
  /\ UNCHANGED pending

\* auth_on_reject as it would be without the reset of authenticated
auth_on_reject_no_reset ==
  /\ Return("InvalidAuthKey")
  /\ UNCHANGED <<authenticated, pending>>

\* &[0x03, 0x08]: invalid auth key
auth_on_reject ==
  /\ authenticated' = FALSE
  /\ Return("InvalidAuthKey")
  /\ UNCHANGED pending

\* auth_on_unknown as it would be if an unknown code ended the handshake
auth_on_unknown_fatal ==
  /\ Return("InvalidAuthKey")
  /\ UNCHANGED <<authenticated, pending>>

\* any other code: unknown authentication response
auth_on_unknown ==
  /\ pc' = "auth_read"
  /\ UNCHANGED <<authenticated, result, pending>>

\* the match on buf[1..3] of a frame that passed the length and header test
auth_dispatch(b) ==
  LET code == SubSeq(b, 2, 3) IN
  CASE code = <<1, 1>> -> auth_on_restart
    [] code = <<2, 1>> -> auth_on_challenge(b)
    [] code = <<3, 1>> -> auth_on_success
    [] code = <<3, 8>> -> auth_on_reject
    [] OTHER -> auth_on_unknown

\* auth_accepts as it would be without the length test
auth_accepts_any_length(b, n) == b[1] = 16

\* the test that decides whether a frame is looked at
auth_accepts(b, n) == n >= 3 /\ b[1] = 16

\* notify.read(&mut buf).await? delivers frame, then the body of the loop
\* up to its next await or return
auth_read(frame) ==
  /\ pc = "auth_read"
  /\ nread < MaxFrames
  /\ Len(frame) <= Len(buf)
  /\ LET b == frame \o SubSeq(buf, Len(frame) + 1, Len(buf)) IN
       /\ buf' = b
       /\ len' = Len(frame)
       /\ nread' = nread + 1
       /\ IF auth_accepts(b, Len(frame))
            THEN auth_dispatch(b)
            ELSE /\ pc' = "auth_read"
                 /\ UNCHANGED <<authenticated, result, pending>>
  /\ UNCHANGED <<connected, chars, op, ret, io, auth_key, initLocals, chunkLocals, busVars, listenerVars, windowVars,
                 authBefore, charsBefore>>

\* notify.read(&mut buf).await? fails
auth_read_error ==
  /\ pc = "auth_read"
  /\ io' = Append(io, Event("read", CHAR_AUTH, <<>>, FALSE))
  /\ Return("IoError")
  /\ UNCHANGED <<connected, chars, authenticated, op, ret, authLocals,
                 initLocals, chunkLocals, busVars, listenerVars, windowVars, authBefore, charsBefore>>

\* write.write(..).await? of the restart signal or the challenge response
auth_write(ok) ==
  /\ pc = "auth_write"
  /\ io' = Append(io, Event("write", CHAR_AUTH, pending, ok))
  /\ IF ok
       THEN pc' = "auth_read" /\ UNCHANGED result
       ELSE Return("IoError")
  /\ UNCHANGED <<connected, chars, authenticated, op, ret, authLocals,
                 initLocals, chunkLocals, busVars, listenerVars, windowVars, authBefore, charsBefore>>

\* ------------------------------------------------------------------------
\* Device operations that require authentication
\* ------------------------------------------------------------------------

\* chrono's weekday().num_days_from_sunday() of a calendar date
DayOfWeek(year, month, day) ==
  LET t == <<0, 3, 2, 5, 0, 3, 5, 1, 4, 6, 2, 4>>
      y == IF month < 3 THEN year - 1 ELSE year
  IN  (y + (y \div 4) - (y \div 100) + (y \div 400) + t[month] + day) % 7

DateTime(y, mo, d, h, mi, sec) ==
  [year |-> y, month |-> mo, day |-> d, hour |-> h, minute |-> mi, second |-> sec]

\* times a caller sets
Times == {DateTime(2024, 11, 20, 13, 5, 9), DateTime(2000, 2, 29, 23, 59, 59)}

\* goals a caller sets
Goals ==
  {[notifications |-> TRUE, steps |-> 10000],
   [notifications |-> FALSE, steps |-> 65535]}

\* what a read of the steps characteristic may deliver
ActivityReads ==
  {<<12, 16, 39, 0, 0, 52, 18, 0, 0, 44, 1, 0, 0>>, <<12, 1, 2>>}

\* the 11 bytes set_band_time writes
TimeBytes(t) ==
  <<t.year % 256, (t.year \div 256) % 256, t.month, t.day, t.hour, t.minute,
    t.second, DayOfWeek(t.year, t.month, t.day), 0, 0, 0>>

\* set_band_time as it would be without the test of self.authenticated
set_band_time_no_auth_test(new_time, ok) ==
  /\ Call("set_band_time")
  /\ ChunkLocalsCleared
  /\ ret' = None
  /\ AuthLocalsCleared
  /\ InitLocalsCleared
  /\ IF IsSome(chars)
       THEN /\ io' = <<Event("write_value_request", CHAR_TIME, TimeBytes(new_time), ok)>>
            /\ Return(IF ok THEN "Ok" ELSE "DBusError")
       ELSE Return("NotInitialized") /\ io' = <<>>
  /\ UNCHANGED <<connected, chars, authenticated>>

\* set_band_time(new_time); ok is the outcome of the write
set_band_time(new_time, ok) ==
  /\ Call("set_band_time")
  /\ ChunkLocalsCleared
  /\ ret' = None
  /\ AuthLocalsCleared
  /\ InitLocalsCleared
  /\ IF ~authenticated
       THEN Return("RequiresAuth") /\ io' = <<>>
       ELSE IF IsSome(chars)
         THEN /\ io' = <<Event("write_value_request", CHAR_TIME, TimeBytes(new_time), ok)>>
              /\ Return(IF ok THEN "Ok" ELSE "DBusError")
         ELSE Return("NotInitialized") /\ io' = <<>>
  /\ UNCHANGED <<connected, chars, authenticated>>

\* get_current_activity(); value is what the read delivers
get_current_activity(value) ==
  /\ Call("get_current_activity")
  /\ ChunkLocalsCleared
  /\ AuthLocalsCleared
  /\ InitLocalsCleared
  /\ IF ~authenticated
       THEN Return("RequiresAuth") /\ io' = <<>> /\ ret' = None
       ELSE IF IsSome(chars)
         THEN /\ io' = <<Event("read_value", CHAR_STEPS, <<>>, TRUE)>>
              /\ IF Len(value) < 11
                   \* value[10] is out of range
                   THEN pc' = "panicked" /\ result' = "Pending" /\ ret' = None
                   ELSE /\ Return("Ok")
                        /\ ret' = Some([steps |-> value[2] + 256 * value[3],
                                        meters |-> value[6] + 256 * value[7],
                                        calories |-> value[10] + 256 * value[11]])
         ELSE Return("NotInitialized") /\ io' = <<>> /\ ret' = None
  /\ UNCHANGED <<connected, chars, authenticated>>

\* get_current_activity() when the read fails
get_current_activity_error ==
  /\ Call("get_current_activity")
  /\ ChunkLocalsCleared
  /\ authenticated
  /\ IsSome(chars)
  /\ AuthLocalsCleared
  /\ InitLocalsCleared
  /\ io' = <<Event("read_value", CHAR_STEPS, <<>>, FALSE)>>
  /\ ret' = None
  /\ Return("DBusError")
  /\ UNCHANGED <<connected, chars, authenticated>>

\* ------------------------------------------------------------------------
\* Timestamps and battery
\* ------------------------------------------------------------------------

\* the fields chrono accepts as a calendar date and a time of day
ValidYmdHms(t) ==
  /\ t.month \in 1..12
  /\ LET leap == (t.year % 4 = 0 /\ t.year % 100 # 0) \/ t.year % 400 = 0
         days == IF t.month = 2 THEN (IF leap THEN 29 ELSE 28)
                 ELSE IF t.month \in {4, 6, 9, 11} THEN 30 ELSE 31
     IN  t.day \in 1..days
  /\ t.hour \in 0..23
  /\ t.minute \in 0..59
  /\ t.second \in 0..59

\* time zones the process may run in (chrono's Local)
Zones == {"UTC", "Europe/Berlin"}

\* the LocalResult of a valid local date and time: in Europe/Berlin the hour
\* from 02:00 is skipped on the last Sunday of March and occurs twice on the
\* last Sunday of October
LocalResult(zone, t) ==
  IF zone = "Europe/Berlin" /\ t.year >= 1996 /\ t.hour = 2
       /\ t.month \in {3, 10}
       /\ t.day >= 25 /\ DayOfWeek(t.year, t.month, t.day) = 0
    THEN IF t.month = 3 THEN "None" ELSE "Ambiguous"
    ELSE "Single"

\* the fields of a timestamp of at least 7 bytes
Timestamp(value) ==
  DateTime(value[1] + 256 * value[2], value[3], value[4], value[5], value[6],
           value[7])

\* parse_time(value) in the time zone of the process
parse_time(value, zone) ==
  IF Len(value) < 7
    THEN None
    ELSE LET t == Timestamp(value)
         IN  IF ValidYmdHms(t) /\ LocalResult(zone, t) = "Single"
               THEN Some(t) ELSE None

\* timestamps a read may deliver: valid ones (the last of 8 bytes), one in
\* the skipped and one in the repeated hour of Europe/Berlin, ones with an
\* invalid field, and short ones
TimeReads ==
  {<<232, 7, 11, 20, 13, 5, 9>>, <<208, 7, 2, 29, 23, 59, 59>>,
   <<255, 255, 12, 31, 0, 0, 0>>, <<1, 0, 1, 1, 0, 0, 0>>,
   <<232, 7, 11, 20, 13, 5, 9, 3>>,
   <<232, 7, 3, 31, 2, 30, 0>>, <<232, 7, 10, 27, 2, 30, 0>>,
   <<232, 7, 0, 20, 13, 5, 9>>, <<232, 7, 13, 20, 13, 5, 9>>,
   <<232, 7, 11, 0, 13, 5, 9>>, <<232, 7, 1, 32, 13, 5, 9>>,
   <<232, 7, 2, 30, 13, 5, 9>>, <<231, 7, 2, 29, 13, 5, 9>>,
   <<232, 7, 11, 20, 24, 5, 9>>, <<232, 7, 11, 20, 13, 60, 9>>,
   <<232, 7, 11, 20, 13, 5, 60>>,
   <<>>, <<232, 7, 11, 20, 13, 5>>}

\* what a read of the battery characteristic may deliver: 11 bytes, then a
\* timestamp, then nothing or two more bytes; and reads of fewer than 11 bytes
BatteryReads ==
  LET heads == {<<0, 85, 1, 0, 0, 0, 0, 0, 0, 0, 0>>,
                <<15, 85, 1, 232, 7, 1, 1, 0, 0, 0, 4>>,
                <<0, 100, 0, 0, 0, 0, 0, 0, 0, 0, 0>>,
                <<0, 7, 2, 0, 0, 0, 0, 0, 0, 0, 0>>}
  IN  {h \o t \o tail : h \in heads, t \in TimeReads, tail \in {<<>>, <<9, 9>>}}
        \cup {<<>>, <<0>>, <<0, 85>>, <<0, 85, 1>>,
              <<0, 85, 1, 0, 0, 0, 0, 0, 0, 0>>}

\* the BatteryStatus as it would be with the timestamp of the earlier layout,
\* at bytes 3..10
BatteryStatus_at_3(value, zone) ==
  LET last_charge == parse_time(SubSeq(value, 4, Len(value)), zone)
  IN  IF IsSome(last_charge)
        THEN Some([battery_level |-> value[2], charging |-> value[3] # 0,
                   last_charge |-> Unwrap(last_charge)])
        ELSE None

\* the BatteryStatus decoded from a read of at least 11 bytes, None when the
\* timestamp is refused
BatteryStatus(value, zone) ==
  LET last_charge == parse_time(SubSeq(value, 12, Len(value)), zone)
  IN  IF IsSome(last_charge)
        THEN Some([battery_level |-> value[2], charging |-> value[3] # 0,
                   last_charge |-> Unwrap(last_charge)])
        ELSE None

\* get_battery(); value is what the read delivers
get_battery(value, zone) ==
  /\ Call("get_battery")
  /\ ChunkLocalsCleared
  /\ AuthLocalsCleared
  /\ InitLocalsCleared
  /\ IF IsSome(chars)
       THEN /\ io' = <<Event("read_value", CHAR_BATTERY, value, TRUE)>>
            /\ IF Len(value) < 11
                 \* value[1], value[2] or &value[11..] is out of range
                 THEN pc' = "panicked" /\ result' = "Pending" /\ ret' = None
                 ELSE /\ ret' = BatteryStatus(value, zone)
                      /\ Return(IF IsSome(ret') THEN "Ok" ELSE "InvalidTime")
       ELSE Return("NotInitialized") /\ io' = <<>> /\ ret' = None
  /\ UNCHANGED <<connected, chars, authenticated>>

\* get_battery() when the read fails
get_battery_error ==
  /\ Call("get_battery")
  /\ ChunkLocalsCleared
  /\ IsSome(chars)
  /\ AuthLocalsCleared
  /\ InitLocalsCleared
  /\ io' = <<Event("read_value", CHAR_BATTERY, <<>>, FALSE)>>
  /\ ret' = None
  /\ Return("DBusError")
  /\ UNCHANGED <<connected, chars, authenticated>>

\* get_band_time(); value is what the read delivers
get_band_time(value, zone) ==
  /\ Call("get_band_time")
  /\ ChunkLocalsCleared
  /\ AuthLocalsCleared
  /\ InitLocalsCleared
  /\ IF IsSome(chars)
       THEN /\ io' = <<Event("read_value", CHAR_TIME, value, TRUE)>>
            /\ ret' = parse_time(value, zone)
            /\ Return(IF IsSome(ret') THEN "Ok" ELSE "InvalidTime")
       ELSE Return("NotInitialized") /\ io' = <<>> /\ ret' = None
  /\ UNCHANGED <<connected, chars, authenticated>>

\* get_band_time() when the read fails
get_band_time_error ==
  /\ Call("get_band_time")
  /\ ChunkLocalsCleared
  /\ IsSome(chars)
  /\ AuthLocalsCleared
  /\ InitLocalsCleared
  /\ io' = <<Event("read_value", CHAR_TIME, <<>>, FALSE)>>
  /\ ret' = None
  /\ Return("DBusError")
  /\ UNCHANGED <<connected, chars, authenticated>>

\* set_activity_goal as it would be if the error of the first write were dropped
set_activity_goal_ignores_first_error(goal, ok1, ok2) ==
  /\ Call("set_activity_goal")
  /\ ChunkLocalsCleared
  /\ ret' = None
  /\ AuthLocalsCleared
  /\ InitLocalsCleared
  /\ IF ~authenticated
       THEN Return("RequiresAuth") /\ io' = <<>>
       ELSE IF IsSome(chars)
         THEN LET notifs_enabled_byte == IF goal.notifications THEN 1 ELSE 0
                  w1 == Event("write_value_command", CHAR_CONFIG,
                              <<6, 6, 0, notifs_enabled_byte>>, ok1)
                  goal_payload == <<16, 0, 0, goal.steps % 256,
                                    (goal.steps \div 256) % 256, 0, 0>>
                  w2 == Event("write_value_request", CHAR_SETTINGS, goal_payload, ok2)
              IN  /\ io' = <<w1, w2>>
                  /\ Return(IF ok2 THEN "Ok" ELSE "DBusError")
         ELSE Return("NotInitialized") /\ io' = <<>>
  /\ UNCHANGED <<connected, chars, authenticated>>

\* set_activity_goal(goal); ok1 and ok2 are the outcomes of the two writes
set_activity_goal(goal, ok1, ok2) ==
  /\ Call("set_activity_goal")
  /\ ChunkLocalsCleared
  /\ ret' = None
  /\ AuthLocalsCleared
  /\ InitLocalsCleared
  /\ IF ~authenticated
       THEN Return("RequiresAuth") /\ io' = <<>>
       ELSE IF IsSome(chars)
         THEN LET notifs_enabled_byte == IF goal.notifications THEN 1 ELSE 0
                  w1 == Event("write_value_command", CHAR_CONFIG,
                              <<6, 6, 0, notifs_enabled_byte>>, ok1)
                  goal_payload == <<16, 0, 0, goal.steps % 256,
                                    (goal.steps \div 256) % 256, 0, 0>>
                  w2 == Event("write_value_request", CHAR_SETTINGS, goal_payload, ok2)
              IN  IF ~ok1
                    THEN io' = <<w1>> /\ Return("DBusError")
                    ELSE /\ io' = <<w1, w2>>
                         /\ Return(IF ok2 THEN "Ok" ELSE "DBusError")
         ELSE Return("NotInitialized") /\ io' = <<>>
  /\ UNCHANGED <<connected, chars, authenticated>>

\* ------------------------------------------------------------------------
\* Band lock
\* ------------------------------------------------------------------------

\* the number of bytes of a char in UTF-8 (chars up to U+07FF are modelled)
Utf8Len(c) == IF c < 128 THEN 1 ELSE 2

\* the UTF-8 bytes of a char
Utf8Char(c) == IF c < 128 THEN <<c>> ELSE <<192 + (c \div 64), 128 + (c % 64)>>

\* str::len(): the length of a string (a sequence of chars) in bytes
RECURSIVE StrLen(_)
StrLen(str) == IF str = <<>> THEN 0 ELSE Utf8Len(Head(str)) + StrLen(Tail(str))

\* str::bytes()
RECURSIVE StrBytes(_)
StrBytes(str) == IF str = <<>> THEN <<>> ELSE Utf8Char(Head(str)) \o StrBytes(Tail(str))

\* PINs a caller passes, as sequences of chars:
\* "1234", "4321", "1111", "12a4", "123", "12345", "0123", "1235", "", "12\u00e9"
Pins ==
  {<<49, 50, 51, 52>>, <<52, 51, 50, 49>>, <<49, 49, 49, 49>>,
   <<49, 50, 97, 52>>, <<49, 50, 51>>, <<49, 50, 51, 52, 53>>,
   <<48, 49, 50, 51>>, <<49, 50, 51, 53>>, <<>>, <<49, 50, 233>>}

\* locks a caller passes
BandLocks == [pin : Pins, enabled : BOOLEAN]

\* pin_invalid as it would be if only the length were tested
pin_invalid_length_only(pin) == StrLen(pin) # 4

\* lock.pin.len() != 4 || !lock.pin.chars().all(|i| i >= '1' && i <= '4')
pin_invalid(pin) ==
  StrLen(pin) # 4 \/ ~(\A i \in 1..Len(pin) : pin[i] >= 49 /\ pin[i] <= 52)

\* the write type a method of the characteristic proxy asks of the daemon
WriteType(method) ==
  CASE method = "write_value_command" -> "command"
    [] method = "write_value_request" -> "request"

\* set_band_lock(lock); ok is the outcome of the write
set_band_lock(lock, ok) ==
  /\ Call("set_band_lock")
  /\ ChunkLocalsCleared
  /\ ret' = None
  /\ AuthLocalsCleared
  /\ InitLocalsCleared
  /\ IF IsSome(chars)
       THEN IF pin_invalid(lock.pin)
         THEN Return("InvalidLockPin") /\ io' = <<>>
         ELSE LET data == <<6, 33, 0, IF lock.enabled THEN 1 ELSE 0>>
                             \o StrBytes(lock.pin) \o <<0>>
              IN  /\ io' = <<Event("write_value_command", CHAR_CONFIG, data, ok)>>
                  /\ Return(IF ok THEN "Ok" ELSE "DBusError")
       ELSE Return("NotInitialized") /\ io' = <<>>
  /\ UNCHANGED <<connected, chars, authenticated>>

\* ------------------------------------------------------------------------
\* Chunked transfer
\* ------------------------------------------------------------------------

CHUNK_LENGTH == 17

\* a | b on unsigned integers
RECURSIVE BitOr(_, _)
BitOr(a, b) ==
  IF a = 0 THEN b
  ELSE IF b = 0 THEN a
  ELSE (IF a % 2 = 1 \/ b % 2 = 1 THEN 1 ELSE 0) + 2 * BitOr(a \div 2, b \div 2)

\* payload.chunks(CHUNK_LENGTH).len()
NumChunks(p) == (Len(p) + CHUNK_LENGTH - 1) \div CHUNK_LENGTH

\* the chunk with index i, counted from 0
Chunk(p, i) ==
  SubSeq(p, i * CHUNK_LENGTH + 1,
         IF (i + 1) * CHUNK_LENGTH < Len(p) THEN (i + 1) * CHUNK_LENGTH ELSE Len(p))

\* ChunkFlag as it would be if every chunk but the first were marked as a
\* middle chunk
ChunkFlag_no_last(i, num_chunks, mt) ==
  BitOr(IF i = 0 THEN (IF i = num_chunks - 1 THEN BitOr(64, 128) ELSE 0) ELSE 64, mt)

\* the flag byte of the chunk with index i
ChunkFlag(i, num_chunks, mt) ==
  BitOr(CASE i = 0 /\ i = num_chunks - 1 -> BitOr(64, 128)
          [] i = 0 /\ i # num_chunks - 1 -> 0
          [] i # 0 /\ i = num_chunks - 1 -> 128
          [] OTHER -> 64,
        mt)

\* ProcessedChunks as it would be if the last chunk were padded with zeros
\* to the chunk length
ProcessedChunks_padded(mt, p) ==
  SubSeq([i \in 1..NumChunks(p) |->
            <<0, ChunkFlag(i - 1, NumChunks(p), mt), (i - 1) % 256>>
              \o Chunk(p, i - 1)
              \o Zeros(CHUNK_LENGTH - Len(Chunk(p, i - 1)))],
         1, NumChunks(p))

\* processed_chunks: 0x00 <flag> <index> <data...> for every chunk
ProcessedChunks(mt, p) ==
  SubSeq([i \in 1..NumChunks(p) |->
            <<0, ChunkFlag(i - 1, NumChunks(p), mt), (i - 1) % 256>>
              \o Chunk(p, i - 1)],
         1, NumChunks(p))

\* message types a caller passes (0x03 is the one set_media_info passes)
MessageTypes == {0, 3}

\* a payload of n bytes
Payload(n) == SubSeq([i \in 1..n |-> (7 * i + 3) % 256], 1, n)

\* payloads a caller passes: every length up to MaxPayload, and one of more
\* than 256 chunks
Payloads ==
  {Payload(n) : n \in 0..MaxPayload} \cup {Payload(256 * CHUNK_LENGTH + 1)}

\* write_chunked up to its first await, for a caller that has set op
write_chunked_start(mt, p) ==
  /\ message_type' = mt
  /\ payload' = p
  /\ io' = <<>>
  /\ ret' = None
  /\ AuthLocalsCleared
  /\ InitLocalsCleared
  /\ IF IsSome(chars)
       THEN /\ processed_chunks' = ProcessedChunks(mt, p)
            /\ IF NumChunks(p) = 0
                 THEN Return("Ok")
                 ELSE pc' = "write_chunk" /\ result' = "Pending"
       ELSE /\ processed_chunks' = <<>>
            /\ Return("NotInitialized")
  /\ UNCHANGED <<connected, chars, authenticated>>

\* write_chunked(message_type, payload)
write_chunked(mt, p) ==
  /\ Call("write_chunked")
  /\ media' = None
  /\ write_chunked_start(mt, p)

\* write_chunk as it would be if a failed write were not returned
write_chunk_ignores_error(ok) ==
  /\ pc = "write_chunk"
  /\ LET i == Len(io) + 1 IN
       /\ io' = Append(io, Event("write_value_command", CHAR_CHUNKED_TRANSFER,
                                 processed_chunks[i], ok))
       /\ IF i = Len(processed_chunks)
            THEN Return("Ok")
            ELSE UNCHANGED <<pc, result>>
  /\ UNCHANGED <<connected, chars, authenticated, op, ret, authLocals,
                 initLocals, chunkLocals, busVars, listenerVars, windowVars, authBefore, charsBefore>>

\* one turn of the loop: chunked_transfer.write_value_command(&chunk).await?
write_chunk(ok) ==
  /\ pc = "write_chunk"
  /\ LET i == Len(io) + 1 IN
       /\ io' = Append(io, Event("write_value_command", CHAR_CHUNKED_TRANSFER,
                                 processed_chunks[i], ok))
       /\ IF ~ok
            THEN Return("DBusError")
            ELSE IF i = Len(processed_chunks)
              THEN Return("Ok")
              ELSE UNCHANGED <<pc, result>>
  /\ UNCHANGED <<connected, chars, authenticated, op, ret, authLocals,
                 initLocals, chunkLocals, busVars, listenerVars, windowVars, authBefore, charsBefore>>

\* ------------------------------------------------------------------------
\* Media info
\* ------------------------------------------------------------------------

MediaState == {"Playing", "Paused", "Stopped"}

\* track names a player reports, as sequences of chars: none, "", "Hi" and a
\* name of 30 chars, one of them of two bytes
Tracks ==
  {None, Some(<<>>), Some(<<72, 105>>),
   Some(<<233>> \o SubSeq([i \in 1..29 |-> 64 + i], 1, 29))}

\* what the player reports
MediaInfos ==
  [track : Tracks, volume : {None, Some(100)},
   position : {None, Some(300), Some(1000)},
   duration : {None, Some(200000), Some(1000)}, state : MediaState]

\* the argument of set_media_info
MediaInputs == {None} \cup {Some(m) : m \in MediaInfos}

\* vec![(d & 0xff) as u8, (d > 8) as u8]
LowAndGreater(d) == <<d % 256, IF d > 8 THEN 1 ELSE 0>>

\* all_fields: the flag and the bytes (if any) of each field, in order
all_fields(m) ==
  <<<<0, Some(LowAndGreater(IF IsSome(m.position)
                              THEN Unwrap(m.position) ELSE 0))>>,
    <<8, IF IsSome(m.track)
           THEN Some(StrBytes(Unwrap(m.track)) \o <<0>>) ELSE None>>,
    <<16, IF IsSome(m.duration)
            THEN Some(LowAndGreater(Unwrap(m.duration))) ELSE None>>,
    <<64, IF IsSome(m.volume)
            THEN Some(LowAndGreater(Unwrap(m.volume))) ELSE None>>>>

\* the fields that are present
present_fields(m) == SelectSeq(all_fields(m), LAMBDA f : IsSome(f[2]))

\* flags.into_iter().fold(0x01, |acc, f| acc | f)
RECURSIVE FoldFlags(_, _)
FoldFlags(fields, acc) ==
  IF fields = <<>> THEN acc
  ELSE FoldFlags(Tail(fields), BitOr(acc, Head(fields)[1]))

\* bufs.concat()
RECURSIVE ConcatBufs(_)
ConcatBufs(fields) ==
  IF fields = <<>> THEN <<>>
  ELSE Unwrap(Head(fields)[2]) \o ConcatBufs(Tail(fields))

\* media_buf as it would be if the duration were written before the track
media_buf_duration_first(new_media) ==
  IF new_media = None
    THEN Zeros(5)
    ELSE LET m == Unwrap(new_media)
             f == all_fields(m)
             fields == SelectSeq(<<f[1], f[3], f[2], f[4]>>, LAMBDA x : IsSome(x[2]))
         IN  <<FoldFlags(fields, 1), IF m.state = "Playing" THEN 1 ELSE 0, 0>>
               \o ConcatBufs(fields)

\* the payload set_media_info hands to write_chunked
media_buf(new_media) ==
  IF new_media = None
    THEN Zeros(5)
    ELSE LET m == Unwrap(new_media)
             fields == present_fields(m)
         IN  <<FoldFlags(fields, 1), IF m.state = "Playing" THEN 1 ELSE 0, 0>>
               \o ConcatBufs(fields)

\* set_media_info(media), up to the first await of write_chunked
set_media_info(new_media) ==
  /\ Call("set_media_info")
  /\ media' = new_media
  /\ write_chunked_start(3, media_buf(new_media))

\* ------------------------------------------------------------------------
\* The session: device paths and the device event stream
\* ------------------------------------------------------------------------

\* object paths, as sequences of characters
\* the default_path of the Adapter proxy, "/org/bluez/hci0"
HCI0 == <<"/", "o", "r", "g", "/", "b", "l", "u", "e", "z", "/", "h", "c", "i", "0">>
\* another adapter, "/org/bluez/hci1"
HCI1 == <<"/", "o", "r", "g", "/", "b", "l", "u", "e", "z", "/", "h", "c", "i", "1">>
\* "/org/bluez/hci01"
HCI01 == HCI0 \o <<"1">>

\* the object name name below path
Child(path, name) == path \o <<"/">> \o name

\* the names of two devices (dev_ and the address, of one length for all
\* devices) and of a service and a characteristic below a device
DEV_A == <<"d", "e", "v", "_", "A">>
DEV_B == <<"d", "e", "v", "_", "B">>

\* paths of objects of the bus
ObjectPaths ==
  {<<"/">>, SubSeq(HCI0, 1, 10), HCI0, HCI1, HCI01,
   Child(HCI0, DEV_A), Child(HCI0, DEV_B), Child(HCI1, DEV_A), Child(HCI01, DEV_A),
   Child(Child(HCI0, DEV_A), <<"s", "1">>),
   Child(Child(Child(HCI0, DEV_A), <<"s", "1">>), <<"c", "1">>)}

\* str::starts_with
StartsWith(str, prefix) ==
  Len(prefix) <= Len(str) /\ SubSeq(str, 1, Len(prefix)) = prefix

\* str::strip_prefix
StripPrefix(str, prefix) ==
  IF StartsWith(str, prefix)
    THEN Some(SubSeq(str, Len(prefix) + 1, Len(str)))
    ELSE None

\* str::contains(char)
Contains(str, c) == \E i \in 1..Len(str) : str[i] = c

\* is_device_path(path)
is_device_path(path) ==
  LET relative_path == StripPrefix(path, Unwrap(adapter_path))
  IN  IF IsSome(relative_path)
        THEN /\ Len(Unwrap(relative_path)) >= 1
             /\ ~Contains(Tail(Unwrap(relative_path)), "/")
        ELSE FALSE

\* BluezSession::new()
BluezSession_new ==
  /\ adapter_path = None
  /\ adapter_path' = Some(HCI0)
  /\ UNCHANGED <<streaming, added_objects, removed_objects, arrived, events,
                 resolved, clientVars, listenerVars, windowVars>>

\* the paths signals are about
SignalPaths ==
  {Child(HCI0, DEV_A), Child(HCI1, DEV_A), HCI01,
   Child(Child(HCI0, DEV_A), <<"s", "1">>)}

\* InterfacesAdded signals: with the Device1 interface and all its
\* properties, all but the RSSI, or without Connected, UUIDs or Address; or
\* with another interface only
AddedSignals ==
  LET address == Some("C0:FF:EE:00:00:01")
      uuids == Some({SERVICE_BAND_0})
      device_properties ==
        {[Address |-> address, UUIDs |-> uuids, Connected |-> Some(FALSE),
          RSSI |-> rssi] : rssi \in {None, Some(-60)}}
        \cup
        {[Address |-> address, UUIDs |-> uuids, Connected |-> None, RSSI |-> None],
         [Address |-> address, UUIDs |-> None, Connected |-> Some(TRUE),
          RSSI |-> None],
         [Address |-> None, UUIDs |-> uuids, Connected |-> Some(TRUE),
          RSSI |-> None]}
  IN  [member : {"InterfacesAdded"}, object_path : SignalPaths,
       interfaces_and_properties :
         {[i \in {"org.bluez.Device1"} |-> props] : props \in device_properties}
         \cup {[i \in {"org.bluez.Battery1"} |-> [Percentage |-> Some(80)]]}]

\* InterfacesRemoved signals
RemovedSignals ==
  [member : {"InterfacesRemoved"}, object_path : SignalPaths,
   interfaces : {{"org.bluez.Device1"}, {"org.bluez.Battery1"},
                 {"org.bluez.Device1", "org.bluez.Battery1"}}]

\* stream_device_events(): both signal streams are subscribed
stream_device_events ==
  /\ IsSome(adapter_path)
  /\ ~streaming
  /\ streaming' = TRUE
  /\ UNCHANGED <<adapter_path, added_objects, removed_objects, arrived, events,
                 resolved, clientVars, listenerVars, windowVars>>

\* the bus delivers an InterfacesAdded signal
InterfacesAdded(signal) ==
  /\ streaming
  /\ Len(arrived) < MaxSignals
  /\ arrived' = Append(arrived, signal)
  /\ added_objects' = Append(added_objects, signal)
  /\ UNCHANGED <<adapter_path, streaming, removed_objects, events, resolved,
                 clientVars, listenerVars, windowVars>>

\* the bus delivers an InterfacesRemoved signal
InterfacesRemoved(signal) ==
  /\ streaming
  /\ Len(arrived) < MaxSignals
  /\ arrived' = Append(arrived, signal)
  /\ removed_objects' = Append(removed_objects, signal)
  /\ UNCHANGED <<adapter_path, streaming, added_objects, events, resolved,
                 clientVars, listenerVars, windowVars>>

\* the closure of added_devices: the event of a signal, if any
added_device(args) ==
  IF is_device_path(args.object_path)
    THEN IF "org.bluez.Device1" \in DOMAIN args.interfaces_and_properties
      THEN LET device == args.interfaces_and_properties["org.bluez.Device1"]
           IN  IF IsSome(device.Address) /\ IsSome(device.UUIDs)
                    /\ IsSome(device.Connected)
                 THEN Some([type |-> "DeviceAdded",
                            path |-> args.object_path,
                            address |-> Unwrap(device.Address),
                            services |-> Unwrap(device.UUIDs),
                            connected |-> Unwrap(device.Connected),
                            rssi |-> device.RSSI])
                 ELSE None
      ELSE None
    ELSE None

\* the closure of removed_devices: the event of a signal, if any
removed_device(args) ==
  IF is_device_path(args.object_path) /\ "org.bluez.Device1" \in args.interfaces
    THEN Some([type |-> "DeviceRemoved", path |-> args.object_path])
    ELSE None

\* the stream takes the next InterfacesAdded signal
added_devices ==
  /\ added_objects # <<>>
  /\ added_objects' = Tail(added_objects)
  /\ events' = events \o added_device(Head(added_objects))
  /\ UNCHANGED <<adapter_path, streaming, removed_objects, arrived, resolved,
                 clientVars, listenerVars, windowVars>>

\* the stream takes the next InterfacesRemoved signal
removed_devices ==
  /\ removed_objects # <<>>
  /\ removed_objects' = Tail(removed_objects)
  /\ events' = events \o removed_device(Head(removed_objects))
  /\ UNCHANGED <<adapter_path, streaming, added_objects, arrived, resolved,
                 clientVars, listenerVars, windowVars>>

\* ------------------------------------------------------------------------
\* The session: the characteristics of a device
\* ------------------------------------------------------------------------

\* devices whose characteristics are asked for
DevicePaths == {Child(HCI0, DEV_A), Child(HCI0, DEV_B)}

\* the objects the daemon may manage, each with its path, its interface, and
\* the UUID and Service properties of that interface (Service is <<>> where
\* there is none): device A with three services, two of one UUID, and
\* characteristics that declare one of them, or a service of device B, as
\* their parent; device B with a service and a characteristic
ManagedObjects ==
  LET Object(path, interface, uuid, service) ==
        [path |-> path, interface |-> interface, UUID |-> uuid, Service |-> service]
      INTERFACE_DEVICE == "org.bluez.Device1"
      INTERFACE_SERVICE == "org.bluez.GattService1"
      INTERFACE_CHARACTERISTIC == "org.bluez.GattCharacteristic1"
      a == Child(HCI0, DEV_A)
      b == Child(HCI0, DEV_B)
      s(dev, n) == Child(dev, <<"s", n>>)
      c(service, n) == Child(service, <<"c", n>>)
  IN  {Object(a, INTERFACE_DEVICE, "", <<>>),
       Object(s(a, "1"), INTERFACE_SERVICE, SERVICE_BAND_0, <<>>),
       Object(s(a, "2"), INTERFACE_SERVICE, SERVICE_BAND_1, <<>>),
       Object(s(a, "3"), INTERFACE_SERVICE, SERVICE_BAND_0, <<>>),
       Object(c(s(a, "1"), "1"), INTERFACE_CHARACTERISTIC, CHAR_BATTERY, s(a, "1")),
       Object(c(s(a, "1"), "2"), INTERFACE_CHARACTERISTIC, CHAR_TIME, s(a, "1")),
       Object(c(s(a, "2"), "1"), INTERFACE_CHARACTERISTIC, CHAR_AUTH, s(b, "1")),
       Object(c(s(a, "3"), "1"), INTERFACE_CHARACTERISTIC, CHAR_BATTERY, s(a, "3")),
       Object(s(b, "1"), INTERFACE_SERVICE, SERVICE_DEVICE_INFO, <<>>),
       Object(c(s(b, "1"), "1"), INTERFACE_CHARACTERISTIC, CHAR_SOFT_REV, s(b, "1"))}

\* the maps from keys to the path of an object of objs with that key, one
\* for each way the inserts of a HashMap iteration may overwrite each other
KeyedPaths(objs) ==
  LET keys == {o.UUID : o \in objs}
  IN  {f \in [keys -> {o.path : o \in objs}] :
         \A k \in keys : \E o \in objs : o.UUID = k /\ o.path = f[k]}

\* service_chars[service_path]: the characteristics under the device that
\* declare service_path as their parent, keyed by UUID (each proxy stands
\* for the path it was built for)
ServiceChars(device_path, objects, service_path) ==
  KeyedPaths({o \in objects : /\ StartsWith(o.path, device_path)
                              /\ o.interface = "org.bluez.GattCharacteristic1"
                              /\ o.Service = service_path})

\* the results as they would be if a service without characteristics were
\* left out
DeviceCharacteristics_omits_empty(device_path, objects) ==
  LET services == {o \in objects : /\ StartsWith(o.path, device_path)
                                   /\ o.interface = "org.bluez.GattService1"}
      maps == UNION {ServiceChars(device_path, objects, o.path) : o \in services}
  IN  UNION {{[u \in {k \in DOMAIN f : r[k] # <<>>} |-> r[u]] :
                r \in {r \in [DOMAIN f -> maps] :
                         \A u \in DOMAIN f :
                           r[u] \in ServiceChars(device_path, objects, f[u])}} :
             f \in KeyedPaths(services)}

\* the results get_device_characteristics may return: service UUID to
\* (characteristic UUID to characteristic)
DeviceCharacteristics(device_path, objects) ==
  LET services == {o \in objects : /\ StartsWith(o.path, device_path)
                                   /\ o.interface = "org.bluez.GattService1"}
      maps == UNION {ServiceChars(device_path, objects, o.path) : o \in services}
  IN  UNION {{r \in [DOMAIN f -> maps] :
                \A u \in DOMAIN f :
                  r[u] \in ServiceChars(device_path, objects, f[u])} :
             f \in KeyedPaths(services)}

\* get_device_characteristics(device_path); objects is what the daemon
\* manages. The call reads nothing of the session but its connection and
\* changes nothing, so the first call of a behaviour stands for every call
get_device_characteristics(device_path, objects) ==
  /\ IsSome(adapter_path)
  /\ resolved = None
  /\ \E value \in DeviceCharacteristics(device_path, objects) :
       resolved' = Some([device_path |-> device_path, objects |-> objects,
                         ok |-> TRUE, value |-> value])
  /\ UNCHANGED <<adapter_path, streaming, added_objects, removed_objects,
                 arrived, events, clientVars, listenerVars, windowVars>>

\* get_device_characteristics(device_path) when get_managed_objects fails
get_device_characteristics_error(device_path) ==
  /\ IsSome(adapter_path)
  /\ resolved = None
  /\ resolved' = Some([device_path |-> device_path, objects |-> {},
                       ok |-> FALSE, value |-> <<>>])
  /\ UNCHANGED <<adapter_path, streaming, added_objects, removed_objects,
                 arrived, events, clientVars, listenerVars, windowVars>>

\* ------------------------------------------------------------------------
\* The music event listener and its consumer
\* ------------------------------------------------------------------------

\* frames the band may write to the notification channel
MusicFrames ==
  {<<>>, <<254>>, <<254, 224>>, <<254, 225>>, <<254, 1>>, <<224, 0>>,
   <<254, 224, 7>>}

\* what a read of the channel completes with: the bytes of a frame, or an
\* error
MusicReads ==
  {[ok |-> TRUE, data |-> frame] : frame \in MusicFrames}
    \cup {[ok |-> FALSE, data |-> <<>>]}

\* what poll_next would make of a completed read if a read of fewer than 2
\* bytes ended the stream
poll_next_result_ends_on_short(read) ==
  IF ~read.ok
    THEN "End"
    ELSE LET size == IF Len(read.data) < NotifyMtu THEN Len(read.data) ELSE NotifyMtu
         IN  IF size < 2 THEN "End"
             ELSE IF read.data[2] = 224 THEN "Open"
             ELSE IF read.data[2] = 225 THEN "Close"
             ELSE "Pending"

\* what poll_next makes of a completed read: Ready(Some(Open)),
\* Ready(Some(Close)), Ready(None) ("End") or Poll::Pending
poll_next_result(read) ==
  IF ~read.ok
    THEN "End"
    ELSE LET size == IF Len(read.data) < NotifyMtu THEN Len(read.data) ELSE NotifyMtu
         IN  IF size < 2 THEN "Pending"
             ELSE IF read.data[2] = 224 THEN "Open"
             ELSE IF read.data[2] = 225 THEN "Close"
             ELSE "Pending"

\* start_band_media: the listener was obtained and the consumer enters its loop
start_band_media ==
  /\ task = "none"
  /\ task' = "ready"
  /\ UNCHANGED <<notify_stream, waker, fused, music_reads, music_events,
                 clientVars, busVars, windowVars>>

\* the band writes a frame or the channel fails: the channel becomes readable
\* with one more read to complete; the reactor wakes the task whose waker is
\* registered
Readable(read) ==
  /\ task # "none"
  /\ Len(music_reads) + Len(notify_stream) < MaxReads
  /\ notify_stream' = Append(notify_stream, read)
  /\ IF waker /\ task = "parked"
       THEN task' = "ready" /\ waker' = FALSE
       ELSE UNCHANGED <<task, waker>>
  /\ UNCHANGED <<fused, music_reads, music_events, clientVars, busVars, windowVars>>

\* the consumer polls music_events.next(): poll_next runs once. An empty
\* channel registers the waker; a completed read does not
poll_next ==
  /\ task = "ready"
  /\ ~fused
  /\ IF notify_stream = <<>>
       THEN /\ waker' = TRUE
            /\ task' = "parked"
            /\ UNCHANGED <<notify_stream, fused, music_reads, music_events>>
       ELSE LET read == Head(notify_stream)
                r == poll_next_result(read)
            IN  /\ notify_stream' = Tail(notify_stream)
                /\ music_reads' = Append(music_reads, read)
                /\ music_events' = IF r \in {"Open", "Close"}
                                     THEN Append(music_events, r)
                                     ELSE music_events
                /\ fused' = (r = "End")
                /\ task' = IF r \in {"Open", "Close"} THEN "ready" ELSE "parked"
                /\ UNCHANGED waker
  /\ UNCHANGED <<clientVars, busVars, windowVars>>

\* band_closed_rx yields: the consumer leaves its loop
band_closed ==
  /\ task \in {"ready", "parked"}
  /\ task' = "stopped"
  /\ UNCHANGED <<notify_stream, waker, fused, music_reads, music_events,
                 clientVars, busVars, windowVars>>

\* ------------------------------------------------------------------------
\* Firmware revision, alerts and the media button stream
\* ------------------------------------------------------------------------

\* std::str::from_utf8 accepts value: the length of the well-formed sequence
\* that starts at byte i, 0 if there is none
Utf8SeqLen(value, i) ==
  LET b == value[i]
      n == Len(value) - i
      Cont(k, lo, hi) == n >= k /\ value[i + k] >= lo /\ value[i + k] <= hi
  IN  IF b < 128 THEN 1
      ELSE IF b >= 194 /\ b <= 223
        THEN (IF Cont(1, 128, 191) THEN 2 ELSE 0)
      ELSE IF b >= 224 /\ b <= 239
        THEN (IF /\ Cont(1, IF b = 224 THEN 160 ELSE 128, IF b = 237 THEN 159 ELSE 191)
                 /\ Cont(2, 128, 191)
              THEN 3 ELSE 0)
      ELSE IF b >= 240 /\ b <= 244
        THEN (IF /\ Cont(1, IF b = 240 THEN 144 ELSE 128, IF b = 244 THEN 143 ELSE 191)
                 /\ Cont(2, 128, 191)
                 /\ Cont(3, 128, 191)
              THEN 4 ELSE 0)
      ELSE 0

\* String::from_utf8(value).is_ok(), from byte i on
RECURSIVE from_utf8_ok(_, _)
from_utf8_ok(value, i) ==
  IF i > Len(value) THEN TRUE
  ELSE LET n == Utf8SeqLen(value, i)
       IN  n > 0 /\ from_utf8_ok(value, i + n)

\* what a read of a characteristic may deliver: every prefix of a battery
\* record, of an activity record and of a revision string, the empty read
\* included, and byte strings that are not UTF-8
Responses ==
  LET records == {<<15, 85, 1, 232, 7, 1, 1, 0, 0, 0, 4, 232, 7, 3, 31, 2, 30, 0, 9>>,
                  <<12, 16, 39, 0, 0, 200, 1, 0, 0, 44, 1, 0, 0>>,
                  <<86, 49, 46, 48, 46, 57, 195, 169, 226, 130, 172>>,
                  <<86, 255>>, <<237, 160, 128>>}
  IN  UNION {{SubSeq(r, 1, n) : n \in 0..Len(r)} : r \in records}

\* get_firmware_revision(); value is what the read delivers, ok its outcome
get_firmware_revision(value, ok) ==
  /\ Call("get_firmware_revision")
  /\ ChunkLocalsCleared
  /\ AuthLocalsCleared
  /\ InitLocalsCleared
  /\ IF IsSome(chars)
       THEN /\ io' = <<Event("read_value", CHAR_SOFT_REV, IF ok THEN value ELSE <<>>, ok)>>
            /\ IF ~ok THEN Return("DBusError") /\ ret' = None
               ELSE IF from_utf8_ok(value, 1) THEN Return("Ok") /\ ret' = Some(value)
               ELSE Return("Utf8Error") /\ ret' = None
       ELSE Return("NotInitialized") /\ io' = <<>> /\ ret' = None
  /\ UNCHANGED <<connected, chars, authenticated>>

\* alerts a caller passes: the AlertType as u8, title and message as
\* sequences of chars ("Hi" / "", "ok" / "café")
Alerts ==
  [alert_type : {1, 3, 4, 5}, title : {<<72, 105>>, <<>>},
   message : {<<111, 107>>, <<99, 97, 102, 233>>}]

\* send_alert as it would be without the test of self.chars
send_alert_unchecked(alert_data, ok) ==
  /\ Call("send_alert")
  /\ ChunkLocalsCleared
  /\ ret' = None
  /\ AuthLocalsCleared
  /\ InitLocalsCleared
  /\ LET data == <<alert_data.alert_type, 1>> \o StrBytes(alert_data.title)
                   \o <<0>> \o StrBytes(alert_data.message) \o <<0>>
     IN  /\ io' = <<Event("write_value_request", CHAR_ALERT, data, ok)>>
         /\ Return(IF ok THEN "Ok" ELSE "DBusError")
  /\ UNCHANGED <<connected, chars, authenticated>>

\* send_alert(alert_data); ok is the outcome of the write
send_alert(alert_data, ok) ==
  /\ Call("send_alert")
  /\ ChunkLocalsCleared
  /\ ret' = None
  /\ AuthLocalsCleared
  /\ InitLocalsCleared
  /\ IF IsSome(chars)
       THEN LET data == <<alert_data.alert_type, 1>> \o StrBytes(alert_data.title)
                          \o <<0>> \o StrBytes(alert_data.message) \o <<0>>
            IN  /\ io' = <<Event("write_value_request", CHAR_ALERT, data, ok)>>
                /\ Return(IF ok THEN "Ok" ELSE "DBusError")
       ELSE Return("NotInitialized") /\ io' = <<>>
  /\ UNCHANGED <<connected, chars, authenticated>>

\* stream_media_button_events(); ok is the outcome of acquire_notify_stream
stream_media_button_events(ok) ==
  /\ Call("stream_media_button_events")
  /\ ChunkLocalsCleared
  /\ AuthLocalsCleared
  /\ InitLocalsCleared
  /\ IF IsSome(chars)
       THEN /\ io' = <<Event("acquire_notify_stream", CHAR_MUSIC_NOTIFICATIONS, <<>>, ok)>>
            /\ ret' = IF ok THEN Some([mtu |-> NotifyMtu]) ELSE None
            /\ Return(IF ok THEN "Ok" ELSE "DBusError")
       ELSE Return("NotInitialized") /\ io' = <<>> /\ ret' = None
  /\ UNCHANGED <<connected, chars, authenticated>>

\* ------------------------------------------------------------------------
\* The window: the futures of the main loop, the current device, the store
\* ------------------------------------------------------------------------

\* the devices of the device list
Devices == {"A", "B"}

\* the futures spawned on the main loop that have not finished
TaskIds == 1..MaxTasks

\* the futures the handlers of the window spawn
Handlers ==
  {"set_new_band", "disconnect", "sync_time", "process_new_auth_key",
   "process_new_goal_config", "process_new_band_lock", "process_new_alias",
   "reload_current_device", "watch_device_changes"}

\* no future
NoTask == [kind |-> "none", pc |-> "done", device |-> "none", chan |-> 0]

\* future t of that kind is suspended at one of these awaits
At(t, kind, pcs) ==
  /\ main_loop = "running"
  /\ spawned[t].kind \in kind
  /\ spawned[t].pc \in pcs

Goto(t, await) == spawned' = [spawned EXCEPT ![t].pc = await]

Finish(t) == spawned' = [spawned EXCEPT ![t] = NoTask]

\* RwLock::read() is granted unless a writer holds or awaits the lock
CanRead == writer = 0

\* RwLock::write() is granted when no writer and no reader holds the lock
CanWrite(t) == writer \in {0, t} /\ readers = {}

\* a future that awaits RwLock::write() is polled when the place of the next
\* writer is free or, once it has that place, when the readers are gone
WriteReady(t) == writer = 0 \/ CanWrite(t)

\* RwLock::write() where it is not granted at once: the writer takes the
\* place of the next writer if it is free, and waits
AwaitWrite(t) ==
  /\ Goto(t, "write")
  /\ writer' = IF writer = 0 THEN t ELSE writer

\* a sender of a channel of band_closed that no receiver will hear is dropped
\* with the channel
Heard(chan) == \E t \in TaskIds : spawned[t].chan = chan

\* the channel async_channel::bounded(1) creates
NewChannel ==
  CHOOSE c \in 1..(MaxTasks + 1) : c # band_closed_cell /\ ~Heard(c) /\ c \notin closed

\* a widget signal or a device event spawns a future, or makes an existing one
\* run a handler; a row being connected is not sensitive, and of the other
\* handlers one future is followed at a time
Spawn(kind, device) ==
  /\ main_loop = "running"
  /\ \A t \in TaskIds : spawned[t].kind = kind => spawned[t].device # device
  /\ \E t \in TaskIds :
       /\ spawned[t] = NoTask
       /\ \A u \in 1..(t - 1) : spawned[u] # NoTask
       /\ spawned' = [spawned EXCEPT ![t] =
            [kind |-> kind, pc |-> "start", device |-> device, chan |-> 0]]
  /\ UNCHANGED <<band_closed_cell, band_closed_borrow, closed, current_device,
                 readers, writer, store_mutex, main_loop, disconnected,
                 clientVars, busVars, listenerVars>>

\* reload_current_device returns r: set_new_band goes on to start_band_media
\* and returns, which drops its borrow of band_closed; with `?` it only
\* returns
ReloadReturn(t, r) ==
  IF spawned[t].kind = "set_new_band"
    THEN /\ band_closed_borrow' = 0
         /\ IF r THEN spawned' = [spawned EXCEPT ![t].kind = "start_band_media",
                                                 ![t].pc = "start"]
                 ELSE Finish(t)
    ELSE Finish(t) /\ UNCHANGED band_closed_borrow

\* reload_current_device from the grant of current_device.read() to its first
\* await, is_connected(); device is the current device and store the holder
\* of the store at that moment
ReloadEnter(t, device, store) ==
  IF device = "none"
    THEN ReloadReturn(t, TRUE) /\ UNCHANGED <<readers, main_loop>>
  ELSE IF store # 0
    \* store.lock() for the alias of the band
    THEN main_loop' = "blocked" /\ UNCHANGED <<spawned, readers, band_closed_borrow>>
  ELSE /\ readers' = readers \cup {t}
       /\ Goto(t, "is_connected")
       /\ UNCHANGED <<main_loop, band_closed_borrow>>

\* reload_current_device, in a future of any kind that calls it; ok is the
\* outcome of the await that completes
reload_current_device(t, ok) ==
  /\ \/ At(t, {"reload_current_device"}, {"start", "read"})
     \/ At(t, {"set_new_band", "process_new_auth_key", "reload_current_device"},
           {"is_connected", "load"})
  /\ LET at == spawned[t].pc
     IN  IF at \in {"start", "read"}
           THEN /\ at = "read" => CanRead
                /\ IF CanRead
                     THEN ReloadEnter(t, current_device, store_mutex)
                     ELSE /\ Goto(t, "read")
                          /\ UNCHANGED <<readers, main_loop, band_closed_borrow>>
         ELSE IF at = "is_connected"
           \* ok is the answer of is_connected()
           THEN IF ok THEN /\ Goto(t, "load")
                           /\ UNCHANGED <<readers, main_loop, band_closed_borrow>>
                      ELSE /\ ReloadReturn(t, TRUE)
                           /\ readers' = readers \ {t}
                           /\ UNCHANGED main_loop
         \* get_battery, get_band_time, get_firmware_revision,
         \* get_current_activity, then store.lock() again
         ELSE IF ok /\ store_mutex # 0
           THEN /\ main_loop' = "blocked"
                /\ UNCHANGED <<spawned, readers, band_closed_borrow>>
           ELSE /\ ReloadReturn(t, ok)
                /\ readers' = readers \ {t}
                /\ UNCHANGED main_loop
  /\ UNCHANGED <<band_closed_cell, closed, current_device, writer, store_mutex,
                 disconnected, clientVars, busVars, listenerVars>>

\* set_new_band(device) up to the first await of reload_current_device; ok
\* is the outcome of the await that completes
set_new_band(t, ok) ==
  /\ At(t, {"set_new_band"},
        {"start", "from_discovered_device", "initialize", "try_band_auth", "write"})
  /\ LET at == spawned[t].pc
         device == spawned[t].device
         \* current_device.write().await.replace(band), then
         \* reload_current_device, whose read() is granted at once
         replace ==
           IF CanWrite(t)
             THEN /\ current_device' = device
                  /\ writer' = 0
                  /\ ReloadEnter(t, device, store_mutex)
             ELSE /\ AwaitWrite(t)
                  /\ UNCHANGED <<current_device, readers, main_loop, band_closed_borrow>>
     IN  IF at = "start"
           THEN IF band_closed_borrow # 0
             \* band_closed.borrow_mut() of a cell that is borrowed
             THEN /\ main_loop' = "panicked"
                  /\ UNCHANGED <<spawned, band_closed_cell, band_closed_borrow, closed,
                                 current_device, readers, writer, disconnected>>
             ELSE /\ band_closed_borrow' = t
                  /\ band_closed_cell' = NewChannel
                  \* close up the last band
                  /\ closed' = IF band_closed_cell # 0 /\ Heard(band_closed_cell)
                                 THEN closed \cup {band_closed_cell} ELSE closed
                  /\ Goto(t, "from_discovered_device")
                  /\ UNCHANGED <<current_device, readers, writer, main_loop, disconnected>>
         ELSE IF at \in {"from_discovered_device", "initialize", "try_band_auth"} /\ ~ok
           \* `?`: the borrow of band_closed is dropped with the future
           THEN /\ band_closed_borrow' = 0
                /\ Finish(t)
                /\ UNCHANGED <<band_closed_cell, closed, current_device, readers,
                               writer, main_loop, disconnected>>
         ELSE IF at = "from_discovered_device"
           THEN /\ Goto(t, "initialize")
                /\ UNCHANGED <<band_closed_cell, band_closed_borrow, closed,
                               current_device, readers, writer, main_loop, disconnected>>
         ELSE IF at = "initialize"
           \* the band is connected; store.lock() for the auth key of the band
           THEN /\ disconnected' = disconnected \ {device}
                /\ IF store_mutex # 0
                     THEN main_loop' = "blocked" /\ UNCHANGED spawned
                     ELSE Goto(t, "try_band_auth") /\ UNCHANGED main_loop
                /\ UNCHANGED <<band_closed_cell, band_closed_borrow, closed,
                               current_device, readers, writer>>
         ELSE /\ at = "write" => WriteReady(t)
              /\ replace
              /\ UNCHANGED <<band_closed_cell, closed, disconnected>>
  /\ UNCHANGED <<store_mutex, clientVars, busVars, listenerVars>>

\* the future start_band_media spawns; ok is the outcome of
\* stream_media_button_events
start_band_media_future(t, ok) ==
  /\ At(t, {"start_band_media"}, {"start", "read", "stream_media_button_events", "select"})
  /\ LET at == spawned[t].pc
         chan == IF at = "start" THEN band_closed_cell ELSE spawned[t].chan
     IN  IF at = "start" /\ band_closed_borrow # 0
           \* band_closed.borrow() of a cell that is mutably borrowed
           THEN /\ main_loop' = "panicked"
                /\ UNCHANGED <<spawned, readers, closed>>
         ELSE IF at \in {"start", "read"}
           THEN /\ at = "read" => CanRead
                /\ UNCHANGED <<main_loop, closed>>
                /\ IF ~CanRead
                     THEN /\ spawned' = [spawned EXCEPT ![t].pc = "read", ![t].chan = chan]
                          /\ UNCHANGED readers
                   ELSE IF chan = 0 \/ current_device = "none"
                     \* no band found
                     THEN Finish(t) /\ UNCHANGED readers
                   ELSE /\ readers' = readers \cup {t}
                        /\ spawned' = [spawned EXCEPT ![t].pc = "stream_media_button_events",
                                                      ![t].chan = chan]
         ELSE IF at = "stream_media_button_events"
           THEN /\ IF ok THEN Goto(t, "select") /\ UNCHANGED <<readers, closed>>
                         ELSE /\ Finish(t)
                              /\ readers' = readers \ {t}
                              /\ closed' = closed \ {chan}
                /\ UNCHANGED main_loop
         \* select!: band_closed_rx.next() completes, the loop is left and the
         \* guard of current_device is dropped
         ELSE /\ chan \in closed
              /\ closed' = closed \ {chan}
              /\ readers' = readers \ {t}
              /\ Finish(t)
              /\ UNCHANGED main_loop
  /\ UNCHANGED <<band_closed_cell, band_closed_borrow, current_device, writer,
                 store_mutex, disconnected, clientVars, busVars, listenerVars>>

\* handle_info_card_clicked("disconnect")
disconnect_clicked(t) ==
  /\ At(t, {"disconnect"}, {"start", "write", "disconnect"})
  /\ LET at == spawned[t].pc
     IN  IF at \in {"start", "write"}
           THEN /\ at = "write" => WriteReady(t)
                /\ IF ~CanWrite(t)
                     THEN AwaitWrite(t) /\ UNCHANGED disconnected
                   ELSE IF current_device = "none"
                     THEN Finish(t) /\ writer' = 0 /\ UNCHANGED disconnected
                   \* device.disconnect() is requested
                   ELSE /\ writer' = t
                        /\ disconnected' = disconnected \cup {current_device}
                        /\ Goto(t, "disconnect")
         \* show_home(), the guard is dropped
         ELSE /\ writer' = 0
              /\ Finish(t)
              /\ UNCHANGED disconnected
  /\ UNCHANGED <<band_closed_cell, band_closed_borrow, closed, current_device,
                 readers, store_mutex, main_loop, clientVars, busVars, listenerVars>>

\* handle_info_card_clicked("sync_time")
sync_time_clicked(t) ==
  /\ At(t, {"sync_time"}, {"start", "read", "set_band_time", "get_band_time"})
  /\ LET at == spawned[t].pc
     IN  IF at \in {"start", "read"}
           THEN /\ at = "read" => CanRead
                /\ IF ~CanRead THEN Goto(t, "read") /\ UNCHANGED readers
                   ELSE IF current_device = "none" THEN Finish(t) /\ UNCHANGED readers
                   ELSE Goto(t, "set_band_time") /\ readers' = readers \cup {t}
         ELSE IF at = "set_band_time"
           THEN Goto(t, "get_band_time") /\ UNCHANGED readers
         ELSE Finish(t) /\ readers' = readers \ {t}
  /\ UNCHANGED <<band_closed_cell, band_closed_borrow, closed, current_device,
                 writer, store_mutex, main_loop, disconnected,
                 clientVars, busVars, listenerVars>>

\* process_new_auth_key up to the first await of reload_current_device; ok
\* is the outcome of the await that completes
process_new_auth_key(t, ok) ==
  /\ At(t, {"process_new_auth_key"}, {"start", "write", "save", "try_band_auth"})
  /\ LET at == spawned[t].pc
     IN  IF at \in {"start", "write"}
           THEN /\ at = "write" => WriteReady(t)
                /\ IF ~CanWrite(t)
                     THEN /\ AwaitWrite(t)
                          /\ UNCHANGED <<store_mutex, main_loop, readers, band_closed_borrow>>
                   ELSE IF current_device = "none"
                     THEN /\ writer' = 0
                          /\ ReloadEnter(t, "none", store_mutex)
                          /\ UNCHANGED store_mutex
                   ELSE IF store_mutex # 0
                     THEN /\ writer' = t
                          /\ main_loop' = "blocked"
                          /\ UNCHANGED <<spawned, store_mutex, readers, band_closed_borrow>>
                   \* store.lock(); store_lock.save().await
                   ELSE /\ writer' = t
                        /\ store_mutex' = t
                        /\ Goto(t, "save")
                        /\ UNCHANGED <<main_loop, readers, band_closed_borrow>>
         ELSE IF at = "save" /\ ok
           THEN /\ Goto(t, "try_band_auth")
                /\ UNCHANGED <<writer, store_mutex, main_loop, readers, band_closed_borrow>>
         \* the guards of the store and of current_device are dropped at the
         \* end of the block, or with `?`
         ELSE /\ writer' = 0
              /\ store_mutex' = 0
              /\ IF ok THEN ReloadEnter(t, current_device, 0)
                       ELSE /\ Finish(t)
                            /\ UNCHANGED <<main_loop, readers, band_closed_borrow>>
  /\ UNCHANGED <<band_closed_cell, closed, current_device, disconnected,
                 clientVars, busVars, listenerVars>>

\* process_new_goal_config and process_new_band_lock; ok is the outcome of
\* the await that completes
process_new_goal_config(t, ok) ==
  /\ At(t, {"process_new_goal_config", "process_new_band_lock"},
        {"start", "read", "set", "save"})
  /\ LET at == spawned[t].pc
     IN  IF at \in {"start", "read"}
           THEN /\ at = "read" => CanRead
                /\ UNCHANGED <<store_mutex, main_loop>>
                /\ IF ~CanRead THEN Goto(t, "read") /\ UNCHANGED readers
                   ELSE IF current_device = "none" THEN Finish(t) /\ UNCHANGED readers
                   ELSE Goto(t, "set") /\ readers' = readers \cup {t}
         ELSE IF at = "set"
           THEN IF ~ok
             THEN /\ Finish(t)
                  /\ readers' = readers \ {t}
                  /\ UNCHANGED <<store_mutex, main_loop>>
             ELSE IF store_mutex # 0
               THEN main_loop' = "blocked" /\ UNCHANGED <<spawned, readers, store_mutex>>
               \* store.lock(); store_lock.save().await
               ELSE /\ store_mutex' = t
                    /\ Goto(t, "save")
                    /\ UNCHANGED <<readers, main_loop>>
         ELSE /\ store_mutex' = 0
              /\ readers' = readers \ {t}
              /\ Finish(t)
              /\ UNCHANGED main_loop
  /\ UNCHANGED <<band_closed_cell, band_closed_borrow, closed, current_device,
                 writer, disconnected, clientVars, busVars, listenerVars>>

\* process_new_alias
process_new_alias(t) ==
  /\ At(t, {"process_new_alias"}, {"start", "read", "save"})
  /\ LET at == spawned[t].pc
     IN  IF at = "start" /\ store_mutex # 0
           THEN main_loop' = "blocked" /\ UNCHANGED <<spawned, readers, store_mutex>>
         ELSE IF at \in {"start", "read"}
           \* the store is locked, then current_device.read().await
           THEN /\ at = "read" => CanRead
                /\ UNCHANGED main_loop
                /\ IF ~CanRead
                     THEN Goto(t, "read") /\ store_mutex' = t /\ UNCHANGED readers
                   ELSE IF current_device = "none"
                     THEN Finish(t) /\ store_mutex' = 0 /\ UNCHANGED readers
                   ELSE /\ Goto(t, "save")
                        /\ store_mutex' = t
                        /\ readers' = readers \cup {t}
         ELSE /\ store_mutex' = 0
              /\ readers' = readers \ {t}
              /\ Finish(t)
              /\ UNCHANGED main_loop
  /\ UNCHANGED <<band_closed_cell, band_closed_borrow, closed, current_device,
                 writer, disconnected, clientVars, busVars, listenerVars>>

\* watch_device_changes on a DeviceAdded event: store.lock() for the alias
watch_device_changes(t) ==
  /\ At(t, {"watch_device_changes"}, {"start"})
  /\ IF store_mutex # 0
       THEN main_loop' = "blocked" /\ UNCHANGED spawned
       ELSE Finish(t) /\ UNCHANGED main_loop
  /\ UNCHANGED <<band_closed_cell, band_closed_borrow, closed, current_device,
                 readers, writer, store_mutex, disconnected,
                 clientVars, busVars, listenerVars>>

\* ------------------------------------------------------------------------
\* Specification
\* ------------------------------------------------------------------------

Next ==
  \/ \E observed \in BOOLEAN : initialize(observed)
  \/ \E ok \in BOOLEAN : initialize_connect(ok)
  \/ \E value \in BOOLEAN : fetch_chars_poll(value)
  \/ \E value \in BOOLEAN : fetch_chars_wait(value)
  \/ \E services \in DeviceTrees : fetch_chars_resolve(services)
  \/ fetch_chars_resolve_error
  \/ \E ok \in BOOLEAN : disconnect(ok)
  \/ LinkDrop
  \/ \E key \in AuthKeys : authenticate(key)
  \/ \E ok \in BOOLEAN : auth_acquire_notify(ok)
  \/ \E ok \in BOOLEAN : auth_acquire_write(ok)
  \/ \E ok \in BOOLEAN : auth_start(ok)
  \/ \E frame \in Frames : auth_read(frame)
  \/ auth_read_error
  \/ \E ok \in BOOLEAN : auth_write(ok)
  \/ \E t \in Times, ok \in BOOLEAN : set_band_time(t, ok)
  \/ \E value \in ActivityReads : get_current_activity(value)
  \/ get_current_activity_error
  \/ \E goal \in Goals, ok1, ok2 \in BOOLEAN : set_activity_goal(goal, ok1, ok2)
  \/ \E lock \in BandLocks, ok \in BOOLEAN : set_band_lock(lock, ok)

Spec == Init /\ [][Next]_vars

\* the operations that encode and decode records (the chunked transfer, the
\* media info, the battery status and the band time), on a client that is
\* initialized or not
WireNext ==
  \/ \E observed \in BOOLEAN : initialize(observed)
  \/ \E ok \in BOOLEAN : initialize_connect(ok)
  \/ \E value \in BOOLEAN : fetch_chars_poll(value)
  \/ \E value \in BOOLEAN : fetch_chars_wait(value)
  \/ \E services \in DeviceTrees : fetch_chars_resolve(services)
  \/ fetch_chars_resolve_error
  \/ \E mt \in MessageTypes, p \in Payloads : write_chunked(mt, p)
  \/ \E new_media \in MediaInputs : set_media_info(new_media)
  \/ \E ok \in BOOLEAN : write_chunk(ok)
  \/ \E value \in BatteryReads, zone \in Zones : get_battery(value, zone)
  \/ get_battery_error
  \/ \E value \in TimeReads, zone \in Zones : get_band_time(value, zone)
  \/ get_band_time_error

WireSpec == Init /\ [][WireNext]_vars

\* a session and its device event stream
BusNext ==
  \/ BluezSession_new
  \/ stream_device_events
  \/ \E signal \in AddedSignals : InterfacesAdded(signal)
  \/ \E signal \in RemovedSignals : InterfacesRemoved(signal)
  \/ added_devices
  \/ removed_devices

BusSpec == Init /\ [][BusNext]_vars

\* a session asked for the characteristics of devices
TreeNext ==
  \/ BluezSession_new
  \/ \E device_path \in DevicePaths, objects \in SUBSET ManagedObjects :
       get_device_characteristics(device_path, objects)
  \/ \E device_path \in DevicePaths : get_device_characteristics_error(device_path)

TreeSpec == Init /\ [][TreeNext]_vars

\* a music event listener, the band that writes to it and its consumer
MusicNext ==
  \/ start_band_media
  \/ \E read \in MusicReads : Readable(read)
  \/ poll_next
  \/ band_closed

MusicSpec == Init /\ [][MusicNext]_vars

\* every operation of a client, on a client that is initialized or not,
\* authenticated or not
OpsNext ==
  \/ \E observed \in BOOLEAN : initialize(observed)
  \/ \E ok \in BOOLEAN : initialize_connect(ok)
  \/ \E value \in BOOLEAN : fetch_chars_poll(value)
  \/ \E value \in BOOLEAN : fetch_chars_wait(value)
  \/ \E services \in DeviceTrees : fetch_chars_resolve(services)
  \/ fetch_chars_resolve_error
  \/ \E ok \in BOOLEAN : disconnect(ok)
  \/ LinkDrop
  \/ \E key \in AuthKeys : authenticate(key)
  \/ \E ok \in BOOLEAN : auth_acquire_notify(ok)
  \/ \E ok \in BOOLEAN : auth_acquire_write(ok)
  \/ \E ok \in BOOLEAN : auth_start(ok)
  \/ \E frame \in Frames : auth_read(frame)
  \/ auth_read_error
  \/ \E ok \in BOOLEAN : auth_write(ok)
  \/ \E value \in Responses, zone \in Zones : get_battery(value, zone)
  \/ get_battery_error
  \/ \E value \in Responses, zone \in Zones : get_band_time(value, zone)
  \/ get_band_time_error
  \/ \E t \in Times, ok \in BOOLEAN : set_band_time(t, ok)
  \/ \E value \in Responses : get_current_activity(value)
  \/ get_current_activity_error
  \/ \E goal \in Goals, ok1, ok2 \in BOOLEAN : set_activity_goal(goal, ok1, ok2)
  \/ \E value \in Responses, ok \in BOOLEAN : get_firmware_revision(value, ok)
  \/ \E alert_data \in Alerts, ok \in BOOLEAN : send_alert(alert_data, ok)
  \/ \E lock \in BandLocks, ok \in BOOLEAN : set_band_lock(lock, ok)
  \/ \E new_media \in {m \in MediaInputs : m = None \/ Unwrap(m).track = None} :
       set_media_info(new_media)
  \/ \E ok \in BOOLEAN : write_chunk(ok)
  \/ \E ok \in BOOLEAN : stream_media_button_events(ok)

OpsSpec == Init /\ [][OpsNext]_vars

\* one step of future t, from one await to the next
TaskStep(t) ==
  \/ \E ok \in BOOLEAN : set_new_band(t, ok)
  \/ \E ok \in BOOLEAN : reload_current_device(t, ok)
  \/ \E ok \in BOOLEAN : start_band_media_future(t, ok)
  \/ disconnect_clicked(t)
  \/ sync_time_clicked(t)
  \/ \E ok \in BOOLEAN : process_new_auth_key(t, ok)
  \/ \E ok \in BOOLEAN : process_new_goal_config(t, ok)
  \/ process_new_alias(t)
  \/ watch_device_changes(t)

\* the window: the user and the bus spawn futures, the main loop runs them
WindowNext ==
  \/ \E device \in Devices : Spawn("set_new_band", device)
  \/ \E kind \in Handlers \ {"set_new_band"} : Spawn(kind, "none")
  \/ \E t \in TaskIds : TaskStep(t)

\* the main loop polls every future that is ready, and every request to the
\* daemon, the band or the file system completes; the user need not do
\* anything
WindowSpec ==
  Init /\ [][WindowNext]_vars /\ \A t \in TaskIds : WF_vars(TaskStep(t))

TypeOK ==
  /\ connected \in BOOLEAN
  /\ authenticated \in BOOLEAN
  /\ chars \in {None} \cup {Some(i) : i \in 1..MaxResolve}
  /\ result \in BandError \cup {"Ok", "Pending"}
  /\ nread \in 0..MaxFrames

\* ------------------------------------------------------------------------
\* Properties
\* ------------------------------------------------------------------------

\* the running (or last) call is op and it has returned
Returned(name) == pc = "idle" /\ op = name

\* C1: after any call to disconnect() has returned, with success or with an
\* error, authenticated is false.
C1_DisconnectAlwaysClearsAuthenticated ==
  Returned("disconnect") => ~authenticated

\* C2 as stated: whenever initialize() has failed with MissingServicesOrChars
\* the client holds no characteristic set, whatever it held before the call.
C2_MissingLeavesNoChars ==
  (Returned("initialize") /\ result = "MissingServicesOrChars") => chars = None

\* C2 amended: whenever initialize() has failed with MissingServicesOrChars
\* the characteristic set is the one held before the call: none for a client
\* that held none (nothing partial is stored), the earlier set for a client
\* that held one and is reconnecting.
C2_MissingKeepsCharsAsBefore ==
  (Returned("initialize") /\ result = "MissingServicesOrChars")
    => chars = charsBefore

\* C2 witness: a reconnecting client that held a set fails with
\* MissingServicesOrChars
C2_Witness ==
  /\ Returned("initialize")
  /\ result = "MissingServicesOrChars"
  /\ IsSome(charsBefore)
  /\ ~was_connected

\* C3: in every authenticate() call the acquisition of the write channel and
\* every write to the auth characteristic come after a successful
\* acquisition of the notification channel in that call.
C3_NotifyAcquiredBeforeWrite ==
  op = "authenticate" =>
    \A i \in 1..Len(io) :
      io[i].k \in {"acquire_write", "write"} =>
        \E j \in 1..(i - 1) : io[j].k = "acquire_notify" /\ io[j].ok

\* C3 witness: a call that has acquired both channels and written the start
\* signal
C3_Witness ==
  /\ op = "authenticate"
  /\ \E i \in 1..Len(io) : io[i].k = "write" /\ io[i].ok

\* one read of the notification channel has just delivered a frame
FrameRead == pc = "auth_read" /\ nread' = nread + 1

\* the frame just read carries the three bytes head
FrameReadWith(head) == FrameRead /\ len' >= 3 /\ SubSeq(buf', 1, 3) = head

\* C4: when authenticate() reads a frame of at least 3 bytes that starts
\* with 0x10,0x03,0x01 it sets authenticated, returns success and writes
\* nothing more.
C4_SuccessFrameReturnsOk ==
  [][FrameReadWith(<<16, 3, 1>>)
       => (authenticated' /\ pc' = "idle" /\ result' = "Ok" /\ io' = io)]_vars

\* C4 witness: a call that returned success at a success frame
C4_Witness ==
  /\ Returned("authenticate")
  /\ result = "Ok"
  /\ authenticated
  /\ len >= 3
  /\ SubSeq(buf, 1, 3) = <<16, 3, 1>>

\* C5: when authenticate() reads the frame 0x10,0x03,0x08 it returns
\* InvalidAuthKey and authenticated is false afterwards, also when it was
\* true before the call.
C5_RejectFrameClearsAuthenticated ==
  [][FrameReadWith(<<16, 3, 8>>)
       => (~authenticated' /\ pc' = "idle" /\ result' = "InvalidAuthKey")]_vars

\* C5 witness: a call that started authenticated and was rejected
C5_Witness ==
  /\ Returned("authenticate")
  /\ result = "InvalidAuthKey"
  /\ authBefore
  /\ ~authenticated
  /\ SubSeq(buf, 1, 3) = <<16, 3, 8>>

\* C6: authenticate() on a client without resolved characteristics returns
\* NotInitialized, acquires no channel, writes nothing and leaves
\* authenticated as it was.
C6_AuthenticateNeedsChars ==
  (op = "authenticate" /\ charsBefore = None)
    => /\ pc = "idle"
       /\ result = "NotInitialized"
       /\ io = <<>>
       /\ authenticated = authBefore

\* C6 witness: authenticate() was called on an uninitialized client
C6_Witness ==
  /\ Returned("authenticate")
  /\ charsBefore = None
  /\ result = "NotInitialized"

AuthRequiredOps == {"set_band_time", "get_current_activity", "set_activity_goal"}

\* C7: called while authenticated is false, set_band_time,
\* get_current_activity and set_activity_goal return RequiresAuth without
\* any characteristic read or write; these operations read or write the
\* device only when authenticated is true.
C7_RequiresAuthBeforeDeviceAccess ==
  op \in AuthRequiredOps =>
    /\ ~authBefore => (pc = "idle" /\ result = "RequiresAuth" /\ io = <<>>)
    /\ io # <<>> => (authBefore /\ authenticated)

\* C7 witness: an initialized, unauthenticated client was refused
C7_Witness ==
  /\ Returned("set_activity_goal")
  /\ IsSome(chars)
  /\ ~authBefore
  /\ result = "RequiresAuth"

\* AES-128-CBC (zero IV, PKCS#7) reference ciphertexts, first 16 bytes
C8_Ciphertext(key, nonce) ==
  CASE key = Key1 /\ nonce = Nonce1 ->
         <<105, 196, 224, 216, 106, 123, 4, 48, 216, 205, 183, 128, 112, 180, 197, 90>>
    [] key = Key1 /\ nonce = Nonce2 ->
         <<137, 237, 94, 106, 5, 202, 118, 51, 129, 53, 8, 95, 226, 28, 64, 189>>
    [] key = Key2 /\ nonce = Nonce1 ->
         <<141, 244, 233, 170, 197, 199, 87, 58, 39, 216, 208, 85, 214, 228, 214, 75>>
    [] key = Key2 /\ nonce = Nonce2 ->
         <<57, 37, 132, 29, 2, 220, 9, 251, 220, 17, 133, 151, 25, 106, 11, 50>>

\* C8: for each challenge frame (0x10,0x02,0x01 and a 16-byte nonce) read,
\* the client prepares 0x03,0x00 followed by the first 16 bytes of the
\* AES-128-CBC encryption of the nonce under the caller's key, and the write
\* that follows puts exactly that one frame on the write channel.
C8_ChallengeAnsweredWithCiphertext ==
  [][/\ (FrameReadWith(<<16, 2, 1>>) /\ len' >= 19)
          => /\ pc' = "auth_write"
             /\ pending' = <<3, 0>> \o C8_Ciphertext(auth_key, SubSeq(buf', 4, 19))
             /\ io' = io
     /\ (pc = "auth_write" /\ pc' # "auth_write")
          => /\ pc' \in {"auth_read", "idle"}
             /\ Len(io') = Len(io) + 1
             /\ SubSeq(io', 1, Len(io)) = io
             /\ io'[Len(io')].k = "write"
             /\ io'[Len(io')].data = pending
     /\ (pc = "auth_write" /\ pc' = "auth_write") => io' = io]_vars

\* C8 witness: the response to the challenge Nonce1 under Key1 was written
C8_Witness ==
  /\ op = "authenticate"
  /\ auth_key = Key1
  /\ len = 19
  /\ SubSeq(buf, 1, 19) = ChallengeFrame(Nonce1)
  /\ \E i \in 1..Len(io) :
       /\ io[i].k = "write"
       /\ io[i].ok
       /\ io[i].data = <<3, 0>> \o C8_Ciphertext(Key1, Nonce1)

\* C9: a frame shorter than 3 bytes or not starting with 0x10 is ignored:
\* no write, no change of authenticated, no return; the loop reads on.
C9_OtherFramesIgnored ==
  [][(FrameRead /\ (len' < 3 \/ buf'[1] # 16))
       => /\ pc' = "auth_read"
          /\ io' = io
          /\ pending' = pending
          /\ authenticated' = authenticated
          /\ result' = result]_vars

\* C9 witness: the loop is reading on after a frame with a wrong first byte
C9_Witness ==
  /\ pc = "auth_read"
  /\ op = "authenticate"
  /\ nread >= 1
  /\ len = 3
  /\ buf[1] # 16

\* the step is a failed read or write on one of the two channels
ChannelError ==
  /\ Len(io') = Len(io) + 1
  /\ io'[Len(io')].k \in {"read", "write"}
  /\ ~io'[Len(io')].ok

\* C10: once its channels are acquired, authenticate() returns exactly at a
\* success frame, a reject frame or a channel I/O error; no other frame ends
\* the call.
C10_ReturnsOnlyAtTerminalFrameOrError ==
  [][(op = "authenticate" /\ pc \in {"auth_start", "auth_read", "auth_write"})
       => /\ pc' \in {"auth_start", "auth_read", "auth_write", "idle"}
          /\ pc' = "idle" <=>
               \/ FrameReadWith(<<16, 3, 1>>)
               \/ FrameReadWith(<<16, 3, 8>>)
               \/ ChannelError
          /\ pc' = "idle" =>
               result' = IF ChannelError THEN "IoError"
                         ELSE IF FrameReadWith(<<16, 3, 1>>) THEN "Ok"
                         ELSE "InvalidAuthKey"]_vars

\* C10 witness: the call is still running after an unknown code and an
\* ignored frame
C10_Witness ==
  /\ op = "authenticate"
  /\ pc = "auth_read"
  /\ nread >= 2
  /\ SubSeq(buf, 1, 3) \in {UnknownFrame, WrongHeadFrame}

\* the ten pairings of service and characteristic that must resolve
RequiredPairs ==
  {<<SERVICE_BAND_0, CHAR_BATTERY>>, <<SERVICE_BAND_0, CHAR_STEPS>>,
   <<SERVICE_BAND_0, CHAR_TIME>>, <<SERVICE_BAND_0, CHAR_CONFIG>>,
   <<SERVICE_BAND_0, CHAR_SETTINGS>>, <<SERVICE_BAND_0, CHAR_CHUNKED_TRANSFER>>,
   <<SERVICE_BAND_0, CHAR_MUSIC_NOTIFICATIONS>>, <<SERVICE_BAND_1, CHAR_AUTH>>,
   <<SERVICE_DEVICE_INFO, CHAR_SOFT_REV>>, <<SERVICE_NOTIFICATION, CHAR_ALERT>>}

\* the tree has the characteristic of the pairing under the service of the pairing
Resolves(services, pair) ==
  pair[1] \in DOMAIN services /\ pair[2] \in services[pair[1]]

\* C11: when initialize() performs resolution on the tree the daemon reports,
\* it returns Ok and stores a new characteristic set exactly when each of the
\* ten pairings is in the tree; when one is missing (also when the
\* characteristic is under another service) it fails with
\* MissingServicesOrChars and stores nothing
C11_ResolutionSucceedsIffAllTenPairs ==
  [][\A services \in DeviceTrees :
       (pc = "fetch_resolve" /\ fetch_chars_resolve(services)) =>
         IF \A pair \in RequiredPairs : Resolves(services, pair)
           THEN result' = "Ok" /\ IsSome(chars') /\ chars' # chars
           ELSE result' = "MissingServicesOrChars" /\ chars' = chars]_vars

\* C11 witness: a first initialize() has resolved the tree and stored the set
C11_Witness ==
  /\ Returned("initialize")
  /\ result = "Ok"
  /\ charsBefore = None
  /\ chars = Some(1)
  /\ io[Len(io)] = Event("get_device_characteristics", "", <<>>, TRUE)

\* the running (or last) call has asked the daemon for the characteristics
ResolutionStarted ==
  \E i \in 1..Len(io) : io[i].k = "get_device_characteristics"

\* C12: resolution is started (or about to be) only when the last observed
\* value of the services-resolved property, polled or streamed, is true
C12_ResolutionOnlyAfterServicesResolved ==
  (pc = "fetch_resolve" \/ ResolutionStarted) => services_resolved

\* C12 witness: resolution was started after the property was observed true on a
\* fresh connection
C12_Witness ==
  /\ op = "initialize"
  /\ ResolutionStarted
  /\ Len(io) = 2
  /\ io[1] = Event("connect", "", <<>>, TRUE)
  /\ services_resolved

\* the running (or last) call has connected the device
Reconnected ==
  \E i \in 1..Len(io) : io[i].k = "connect" /\ io[i].ok

\* C13 as stated: an initialize() that reconnects the device resolves only
\* if no characteristic set is cached, and with a cached set it resolves
\* nothing and keeps the set
C13_ReconnectResolvesOnlyWithoutCache ==
  (Returned("initialize") /\ Reconnected) =>
    /\ ResolutionStarted => charsBefore = None
    /\ IsSome(charsBefore) => (~ResolutionStarted /\ chars = charsBefore)

\* C13: an initialize() that reconnects the device always resolves, cached
\* set or not: when it succeeds the set is the newly resolved one, when it
\* fails the set is the one held before; an initialize() that succeeds
\* without resolving found the device connected and a set cached
C13_ReconnectAlwaysResolves ==
  /\ (Returned("initialize") /\ Reconnected) =>
       /\ ResolutionStarted
       /\ IF result = "Ok"
            THEN IsSome(chars) /\ chars # charsBefore
            ELSE chars = charsBefore
  /\ (Returned("initialize") /\ result = "Ok" /\ ~ResolutionStarted) =>
       (was_connected /\ IsSome(charsBefore) /\ chars = charsBefore)

\* C13 witness: a reconnect with a cached set has replaced the set
C13_Witness ==
  /\ Returned("initialize")
  /\ Reconnected
  /\ result = "Ok"
  /\ IsSome(charsBefore)
  /\ IsSome(chars)
  /\ chars # charsBefore

\* a step that is a call of initialize()
InitializeCall == pc = "idle" /\ op' = "initialize" /\ connected' = connected

\* the step returns Ok at once, with no request and nothing changed
InitializeNoOp ==
  /\ pc' = "idle"
  /\ result' = "Ok"
  /\ io' = <<>>
  /\ chars' = chars
  /\ authenticated' = authenticated

\* C14 as stated: initialize() on a connected device with a cached set is a
\* no-op, and a connect request is asked for only when the device is not
\* connected
C14_NoOpWhenConnectedAndCached ==
  [][InitializeCall =>
       /\ (connected /\ IsSome(chars)) => InitializeNoOp
       /\ pc' = "connect" => ~connected]_vars

\* C14: initialize() on a device that is_connected() reports connected, with
\* a cached set, is a no-op; a connect request is asked for exactly when
\* is_connected() reports false, which it does for a device that is not
\* connected and for one whose Connected property could not be read
C14_NoOpWhenObservedConnectedAndCached ==
  [][InitializeCall =>
       /\ (was_connected' /\ IsSome(chars)) => InitializeNoOp
       /\ pc' = "connect" <=> ~was_connected'
       /\ ~connected => ~was_connected']_vars

\* C14 witness: initialize() has returned at once on a connected,
\* authenticated client with a cached set
C14_Witness ==
  /\ Returned("initialize")
  /\ was_connected
  /\ result = "Ok"
  /\ io = <<>>
  /\ IsSome(chars)
  /\ chars = charsBefore
  /\ authenticated

\* C15: disconnect() leaves the characteristic set as it is, and no step of
\* any operation makes a present characteristic set absent
C15_CharsNeverAbsentAgain ==
  [][/\ IsSome(chars) => IsSome(chars')
     /\ (pc = "idle" /\ op' = "disconnect") => chars' = chars]_vars

\* C15 witness: disconnect() has succeeded and the set is still there
C15_Witness ==
  /\ Returned("disconnect")
  /\ result = "Ok"
  /\ ~connected
  /\ IsSome(chars)
  /\ chars = charsBefore

\* a PIN of 4 characters, each in '1'..'4'
PinAccepted(pin) == Len(pin) = 4 /\ \A i \in 1..4 : pin[i] \in 49..52

\* "1234", "4321", "1111"
AcceptedPins == {<<49, 50, 51, 52>>, <<52, 51, 50, 49>>, <<49, 49, 49, 49>>}

\* "12a4", "123", "12345", "0123"
RejectedPins ==
  {<<49, 50, 97, 52>>, <<49, 50, 51>>, <<49, 50, 51, 52, 53>>, <<48, 49, 50, 51>>}

\* C16: on an initialized client set_band_lock fails with InvalidLockPin and
\* writes nothing exactly when the PIN is not 4 characters each in '1'..'4'
\* (the PINs named are accepted resp. rejected); for an accepted PIN it
\* issues exactly one unacknowledged write of
\* 0x06 0x21 0x00 enabled pin 0x00 to the config characteristic
C16_BandLockValidatesPin ==
  [][(pc = "idle" /\ op' = "set_band_lock" /\ IsSome(chars)) =>
     \A lock \in BandLocks, ok \in BOOLEAN :
       set_band_lock(lock, ok) =>
         /\ lock.pin \in AcceptedPins => result' # "InvalidLockPin"
         /\ lock.pin \in RejectedPins => result' = "InvalidLockPin"
         /\ IF PinAccepted(lock.pin)
              THEN /\ result' = IF ok THEN "Ok" ELSE "DBusError"
                   /\ Len(io') = 1
                   /\ io'[1].c = CHAR_CONFIG
                   /\ WriteType(io'[1].k) = "command"
                   /\ io'[1].data = <<6, 33, 0, IF lock.enabled THEN 1 ELSE 0>>
                                      \o lock.pin \o <<0>>
              ELSE result' = "InvalidLockPin" /\ io' = <<>>]_vars

\* C16 witness: an initialized client has rejected a PIN without a write
C16_Witness ==
  /\ Returned("set_band_lock")
  /\ IsSome(chars)
  /\ result = "InvalidLockPin"
  /\ io = <<>>

\* the running (or last) call is write_chunked, called directly or by
\* set_media_info, on a client that has its characteristics
InWriteChunked ==
  op \in {"write_chunked", "set_media_info"} /\ IsSome(charsBefore)

\* the least integer not below n / d
CeilDiv(n, d) == IF n % d = 0 THEN n \div d ELSE (n \div d) + 1

\* the body of a chunk frame: what follows its three header bytes
Body(frame) == SubSeq(frame, 4, Len(frame))

\* the bodies of the frames lo..hi, one after the other
RECURSIVE ConcatBodies(_, _, _)
ConcatBodies(frames, lo, hi) ==
  IF lo > hi THEN <<>>
  ELSE IF lo = hi THEN Body(frames[lo])
  ELSE ConcatBodies(frames, lo, (lo + hi) \div 2)
         \o ConcatBodies(frames, ((lo + hi) \div 2) + 1, hi)

\* C17: write_chunked splits a payload of n bytes into ceil(n / 17) frames
\* (none for n = 0), every body but the last has 17 bytes, and the bodies in
\* index order, one after the other, are the payload
C17_ChunksReassembleToPayload ==
  InWriteChunked =>
    /\ Len(processed_chunks) = CeilDiv(Len(payload), 17)
    /\ \A i \in 1..(Len(processed_chunks) - 1) : Len(Body(processed_chunks[i])) = 17
    /\ ConcatBodies(processed_chunks, 1, Len(processed_chunks)) = payload

\* C17 witness: a payload of 18 bytes was split in two and written
C17_Witness ==
  /\ Returned("write_chunked")
  /\ result = "Ok"
  /\ Len(payload) = 18
  /\ Len(processed_chunks) = 2
  /\ Len(io) = 2

\* the position marker of the chunk with index i of n
Marker(i, n) ==
  CASE i = 0 /\ i = n - 1 -> 192
    [] i = 0 /\ i # n - 1 -> 0
    [] i # 0 /\ i = n - 1 -> 128
    [] OTHER -> 64

\* C18: every frame written by write_chunked is 0x00, the message type OR'd
\* with the position marker (0xC0 first and last, 0x00 first, 0x80 last,
\* 0x40 middle), the index mod 256, and the chunk body; of two or more
\* frames exactly one carries the first and exactly one the last marker.
\* (The message types passed have no bit of a marker, so OR is a sum.)
C18_FrameHeaderAndMarkers ==
  InWriteChunked =>
    LET n == CeilDiv(Len(payload), 17) IN
    /\ \A j \in 1..Len(io) :
         LET f == io[j].data
             last == IF 17 * j < Len(payload) THEN 17 * j ELSE Len(payload)
         IN  /\ f[1] = 0
             /\ f[2] = message_type + Marker(j - 1, n)
             /\ f[3] = (j - 1) % 256
             /\ Body(f) = SubSeq(payload, 17 * (j - 1) + 1, last)
    /\ n >= 2 =>
         /\ Cardinality({k \in 1..Len(processed_chunks) :
                           processed_chunks[k][2] = message_type}) = 1
         /\ Cardinality({k \in 1..Len(processed_chunks) :
                           processed_chunks[k][2] = message_type + 128}) = 1

\* C18 witness: the frame with index 256 was written as the last of 257
C18_Witness ==
  /\ Returned("write_chunked")
  /\ result = "Ok"
  /\ message_type = 3
  /\ Len(io) = 257
  /\ io[257].data[2] = 131
  /\ io[257].data[3] = 0

\* C19: the chunks of one message are written in ascending index order, each
\* at most once; a failed write is the last write of the call, the call
\* returns its error, and the writes before it stay sent
C19_ChunksInOrderNoRetry ==
  InWriteChunked =>
    /\ Len(io) <= Len(processed_chunks)
    /\ \A j \in 1..Len(io) :
         /\ io[j].c = CHAR_CHUNKED_TRANSFER
         /\ io[j].k = "write_value_command"
         /\ io[j].data = processed_chunks[j]
    /\ \A j \in 1..(Len(io) - 1) : io[j].ok
    /\ (Len(io) > 0 /\ ~io[Len(io)].ok) => (pc = "idle" /\ result = "DBusError")
    /\ (pc = "idle" /\ result = "Ok") =>
         (Len(io) = Len(processed_chunks) /\ \A j \in 1..Len(io) : io[j].ok)
    /\ pc = "idle" => result \in {"Ok", "DBusError"}

\* C19 witness: the second of three chunks failed and the call returned
C19_Witness ==
  /\ Returned("write_chunked")
  /\ result = "DBusError"
  /\ Len(processed_chunks) = 3
  /\ Len(io) = 2
  /\ io[1].ok
  /\ ~io[2].ok

\* the number of bytes of x if it is there, else 0
LenIfSome(x, n) == IF IsSome(x) THEN n ELSE 0

\* C20: for a present MediaInfo the flag byte is 0x01, with 0x08 iff a track
\* name is present, 0x10 iff the duration is, 0x40 iff the volume is; after
\* the prefix (flags, playing byte, 0x00) come the position (2 bytes,
\* always), the track bytes and a null terminator, the duration (2 bytes)
\* and the volume (2 bytes), each of the three exactly when its bit is set;
\* the playing byte is 1 only for Playing. (A two-byte field is told from
\* the others by its first byte, the low byte of its value.)
C20_MediaFlagsAndLayout ==
  (op = "set_media_info" /\ IsSome(media)) =>
    LET m == Unwrap(media)
        b == payload
        t == IF IsSome(m.track) THEN StrBytes(Unwrap(m.track)) \o <<0>> ELSE <<>>
        pos == IF IsSome(m.position) THEN Unwrap(m.position) ELSE 0
        at_dur == 5 + Len(t)
        at_vol == at_dur + LenIfSome(m.duration, 2)
    IN  /\ message_type = 3
        /\ b[1] = 1 + LenIfSome(m.track, 8) + LenIfSome(m.duration, 16)
                    + LenIfSome(m.volume, 64)
        /\ b[2] = IF m.state = "Playing" THEN 1 ELSE 0
        /\ b[3] = 0
        /\ Len(b) = 5 + Len(t) + LenIfSome(m.duration, 2) + LenIfSome(m.volume, 2)
        /\ b[4] = pos % 256
        /\ SubSeq(b, 6, 5 + Len(t)) = t
        /\ IsSome(m.duration) => b[at_dur + 1] = Unwrap(m.duration) % 256
        /\ IsSome(m.volume) => b[at_vol + 1] = Unwrap(m.volume) % 256

\* C20 witness: a playing track "Hi" with position, duration and volume was
\* handed to write_chunked
C20_Witness ==
  /\ op = "set_media_info"
  /\ IsSome(media)
  /\ Unwrap(media).state = "Playing"
  /\ Len(payload) = 12
  /\ payload[1] = 89
  /\ payload[2] = 1
  /\ SubSeq(payload, 6, 8) = <<72, 105, 0>>

\* a 16-bit value as two little-endian bytes
LittleEndian16(v) == <<v % 256, (v \div 256) % 256>>

\* a present field whose value fits in 16 bits
Fits16(x) == IsSome(x) /\ Unwrap(x) < 65536

\* C21: the 2-byte position, duration and volume fields that set_media_info
\* writes are little-endian, the low byte followed by value >> 8, for every
\* value that fits in 16 bits.
C21_MediaFieldsLittleEndian ==
  (op = "set_media_info" /\ IsSome(media)) =>
    LET m == Unwrap(media)
        b == payload
        pos == IF IsSome(m.position) THEN Unwrap(m.position) ELSE 0
        at_dur == 5 + (IF IsSome(m.track) THEN StrLen(Unwrap(m.track)) + 1 ELSE 0)
        at_vol == at_dur + LenIfSome(m.duration, 2)
    IN  /\ SubSeq(b, 4, 5) = LittleEndian16(pos)
        /\ Fits16(m.duration) =>
             SubSeq(b, at_dur + 1, at_dur + 2) = LittleEndian16(Unwrap(m.duration))
        /\ Fits16(m.volume) =>
             SubSeq(b, at_vol + 1, at_vol + 2) = LittleEndian16(Unwrap(m.volume))

\* C22: on an authenticated, initialized client set_activity_goal issues an
\* unacknowledged write 06 06 00 (01 if notifications, else 00) to the config
\* characteristic and then, only if that write succeeded, an acknowledged
\* write 10 00 00 stepsLo stepsHi 00 00 to the settings characteristic, and
\* nothing else; when the second write fails the first stays issued and the
\* call returns the error.
C22_GoalWritesConfigThenSettings ==
  [][(pc = "idle" /\ op' = "set_activity_goal" /\ authenticated /\ IsSome(chars)) =>
       \A goal \in Goals, ok1, ok2 \in BOOLEAN :
         set_activity_goal(goal, ok1, ok2) =>
           /\ Len(io') = IF ok1 THEN 2 ELSE 1
           /\ WriteType(io'[1].k) = "command"
           /\ io'[1].c = CHAR_CONFIG
           /\ io'[1].data = <<6, 6, 0, IF goal.notifications THEN 1 ELSE 0>>
           /\ io'[1].ok = ok1
           /\ ok1 =>
                /\ WriteType(io'[2].k) = "request"
                /\ io'[2].c = CHAR_SETTINGS
                /\ io'[2].data = <<16, 0, 0, goal.steps % 256, goal.steps \div 256, 0, 0>>
                /\ io'[2].ok = ok2
           /\ result' = IF ok1 /\ ok2 THEN "Ok" ELSE "DBusError"]_vars

\* C22 witness: a goal of 10000 steps with notifications was set; the config
\* write succeeded and the settings write failed
C22_Witness ==
  /\ Returned("set_activity_goal")
  /\ authBefore
  /\ IsSome(charsBefore)
  /\ Len(io) = 2
  /\ io[1].data = <<6, 6, 0, 1>>
  /\ io[1].ok
  /\ io[2].data = <<16, 0, 0, 16, 39, 0, 0>>
  /\ ~io[2].ok
  /\ result = "DBusError"

\* the call op has run to its end (returned or aborted) after a read that
\* delivered bytes
ReadDone(name) ==
  /\ op = name
  /\ pc \in {"idle", "panicked"}
  /\ io # <<>>
  /\ io[1].ok

\* the scenario read of the battery characteristic
ScenarioBattery ==
  <<0, 85, 1, 0, 0, 0, 0, 0, 0, 0, 0, 232, 7, 11, 20, 13, 5, 9>>

\* a valid local time that some time zone skips or repeats
ChangeHour(t) == \E zone \in Zones : LocalResult(zone, t) # "Single"

C24_TimestampRoundTrip ==
  (ReadDone("get_band_time") /\ Len(io[1].data) >= 7) =>
    LET v == io[1].data
        t == Timestamp(v)
    IN  (ValidYmdHms(t) /\ \A zone \in Zones : LocalResult(zone, t) # "None") =>
          /\ result = "Ok"
          /\ SubSeq(TimeBytes(Unwrap(ret)), 1, 7) = SubSeq(v, 1, 7)

\* the bytes handed to parse_time by the call that has run
TimestampBytes ==
  IF op = "get_band_time" THEN io[1].data
  ELSE SubSeq(io[1].data, 12, Len(io[1].data))

\* C25: get_band_time and get_battery return InvalidTime, and no date, for
\* every read whose timestamp has an invalid calendar field or fewer than 7
\* bytes.
C25_InvalidTimestampsFail ==
  (ReadDone("get_band_time") \/ ReadDone("get_battery")) =>
    ((Len(TimestampBytes) < 7 \/ ~ValidYmdHms(Timestamp(TimestampBytes))) =>
       /\ pc = "idle"
       /\ result = "InvalidTime"
       /\ ret = None)

\* path is exactly one segment below adapter
OneSegmentBelow(adapter, path) ==
  LET segment == StripPrefix(path, adapter \o <<"/">>)
  IN  IsSome(segment) /\ Unwrap(segment) # <<>> /\ ~Contains(Unwrap(segment), "/")

\* C26: a path is classified as a device if and only if it is exactly one
\* segment below the adapter's path; the adapter path, deeper paths, paths
\* not below the adapter and siblings that only have the adapter path as a
\* string prefix are rejected.
C26_DevicePathIffOneSegmentBelow ==
  IsSome(adapter_path) =>
    \A path \in ObjectPaths :
      is_device_path(path) <=> OneSegmentBelow(Unwrap(adapter_path), path)

\* the signals of one kind that the stream has taken, in arrival order
Handled(member, queue) ==
  LET of_kind == SelectSeq(arrived, LAMBDA signal : signal.member = member)
  IN  SubSeq(of_kind, 1, Len(of_kind) - Len(queue))

\* the paths of a sequence of signals or events
RECURSIVE PathsOf(_)
PathsOf(seq) ==
  IF seq = <<>> THEN <<>>
  ELSE <<Head(seq).object_path>> \o PathsOf(Tail(seq))

RECURSIVE EventPaths(_)
EventPaths(seq) ==
  IF seq = <<>> THEN <<>> ELSE <<Head(seq).path>> \o EventPaths(Tail(seq))

\* an interfaces-added signal for a device path with the device interface
QualifiesAdded(signal) ==
  /\ OneSegmentBelow(Unwrap(adapter_path), signal.object_path)
  /\ "org.bluez.Device1" \in DOMAIN signal.interfaces_and_properties

\* an interfaces-removed signal for a device path with the device interface
QualifiesRemoved(signal) ==
  /\ OneSegmentBelow(Unwrap(adapter_path), signal.object_path)
  /\ "org.bluez.Device1" \in signal.interfaces

\* C27: the DeviceAdded events are, in arrival order, one for each
\* interfaces-added signal taken so far whose path is a device path and
\* whose interfaces include the device interface, and no other; likewise the
\* DeviceRemoved events for the interfaces-removed signals.
C27_OneEventPerQualifyingSignal ==
  streaming =>
    /\ EventPaths(SelectSeq(events, LAMBDA e : e.type = "DeviceAdded"))
         = PathsOf(SelectSeq(Handled("InterfacesAdded", added_objects),
                             QualifiesAdded))
    /\ EventPaths(SelectSeq(events, LAMBDA e : e.type = "DeviceRemoved"))
         = PathsOf(SelectSeq(Handled("InterfacesRemoved", removed_objects),
                             QualifiesRemoved))

\* C28: the result has one entry per service UUID found under the device; the
\* entry of a UUID holds exactly the characteristics under the device that
\* declare one service of that UUID as their parent (keyed by their UUID),
\* and is empty when there is none; a characteristic whose declared parent
\* is not a service under the device is in no entry.
C28_CharacteristicsGroupedByService ==
  (IsSome(resolved) /\ Unwrap(resolved).ok) =>
    LET r == Unwrap(resolved).value
        objects == Unwrap(resolved).objects
        below == Unwrap(resolved).device_path \o <<"/">>
        services == {o \in objects : /\ StartsWith(o.path, below)
                                     /\ o.interface = "org.bluez.GattService1"}
        characteristics == {o \in objects : /\ StartsWith(o.path, below)
                                            /\ o.interface = "org.bluez.GattCharacteristic1"}
    IN  /\ DOMAIN r = {o.UUID : o \in services}
        /\ \A u \in DOMAIN r :
             \E service \in services :
               /\ service.UUID = u
               /\ LET cs == {c \in characteristics : c.Service = service.path}
                  IN  /\ DOMAIN r[u] = {c.UUID : c \in cs}
                      /\ \A x \in DOMAIN r[u] :
                           \E c \in cs : c.UUID = x /\ c.path = r[u][x]
        /\ \A c \in characteristics :
             c.Service \notin {o.path : o \in services} =>
               \A u \in DOMAIN r : \A x \in DOMAIN r[u] : r[u][x] # c.path

\* C28 witness: device A was resolved with a service of two characteristics,
\* a service whose only characteristic declares a service of device B, and
\* the service of device B
C28_Witness ==
  /\ IsSome(resolved)
  /\ Unwrap(resolved).ok
  /\ Unwrap(resolved).device_path = Child(HCI0, DEV_A)
  /\ DOMAIN Unwrap(resolved).value = {SERVICE_BAND_0, SERVICE_BAND_1}
  /\ DOMAIN Unwrap(resolved).value[SERVICE_BAND_0] = {CHAR_BATTERY, CHAR_TIME}
  /\ Unwrap(resolved).value[SERVICE_BAND_1] = <<>>
  /\ \E o \in Unwrap(resolved).objects : o.UUID = CHAR_AUTH
  /\ \E o \in Unwrap(resolved).objects : o.UUID = SERVICE_DEVICE_INFO

\* the events of a sequence of completed reads
RECURSIVE Decoded(_)
Decoded(reads) ==
  IF reads = <<>> THEN <<>>
  ELSE (IF Head(reads).ok /\ Len(Head(reads).data) >= 2
             /\ Head(reads).data[2] \in {224, 225}
          THEN <<IF Head(reads).data[2] = 224 THEN "Open" ELSE "Close">>
          ELSE <<>>)
       \o Decoded(Tail(reads))

\* C29: the events emitted are, read by read, Open for a read of at least 2
\* bytes whose byte 1 is 0xe0, Close for byte 1 equal to 0xe1 and nothing for
\* any other read; no other event is ever emitted; the stream has ended
\* exactly when the last completed read was an error, and nothing is read
\* after that.
C29_MusicDecoder ==
  /\ music_events = Decoded(music_reads)
  /\ \A i \in DOMAIN music_events : music_events[i] \in {"Open", "Close"}
  /\ fused <=> (music_reads # <<>> /\ ~music_reads[Len(music_reads)].ok)
  /\ \A i \in 1..(Len(music_reads) - 1) : music_reads[i].ok

\* C29 witness: an Open and a Close frame were emitted and then the channel
\* failed, which ended the stream
C29_Witness ==
  /\ music_events = <<"Open", "Close">>
  /\ Len(music_reads) = 3
  /\ fused

\* C30: a recognized frame that waits in the channel of a stream that has
\* not ended is going to be read: the consumer is scheduled to poll, it is
\* not asleep waiting for some other event.
C30_RecognizedFrameWakesConsumer ==
  (/\ task \in {"ready", "parked"}
   /\ ~fused
   /\ \E i \in DOMAIN notify_stream :
        poll_next_result(notify_stream[i]) \in {"Open", "Close"})
    => task = "ready"

\* ------------------------------------------------------------------------
\* C31..C40
\* ------------------------------------------------------------------------

\* the device operations of a client
DeviceOps ==
  {"get_battery", "get_band_time", "set_band_time", "get_current_activity",
   "set_activity_goal", "get_firmware_revision", "send_alert", "set_band_lock",
   "set_media_info", "stream_media_button_events", "authenticate"}

\* the running (or last) call is a device operation that started on a client
\* whose characteristics were never resolved
OnUnresolvedClient == op \in DeviceOps /\ charsBefore = None

\* C31: every device operation invoked on a client whose characteristics
\* have never been resolved fails with NotInitialized and performs no device
\* I/O.
C31_UnresolvedFailsNotInitialized ==
  OnUnresolvedClient => (pc = "idle" /\ result = "NotInitialized" /\ io = <<>>)

\* C31 as the code has it: on a client whose characteristics have never been
\* resolved, set_band_time, get_current_activity and set_activity_goal test
\* authenticated first and fail with RequiresAuth, every other device
\* operation fails with NotInitialized; none performs device I/O.
C31_UnresolvedFailsWithoutIo ==
  OnUnresolvedClient =>
    /\ pc = "idle"
    /\ io = <<>>
    /\ ret = None
    /\ result = IF op \in AuthRequiredOps THEN "RequiresAuth" ELSE "NotInitialized"

\* C31 witness: a never-resolved client refused to open the media button
\* stream
C31_Witness ==
  /\ Returned("stream_media_button_events")
  /\ charsBefore = None
  /\ result = "NotInitialized"

\* C34: in every reachable state of a device client, authenticated = true
\* implies that the characteristic set is resolved.
C34_AuthenticatedImpliesChars == authenticated => IsSome(chars)

\* C34 witness: an authenticated client whose link dropped has failed to
\* resolve the characteristics again, and still holds a set
C34_Witness ==
  /\ Returned("initialize")
  /\ result # "Ok"
  /\ ResolutionStarted
  /\ authenticated
  /\ IsSome(chars)

\* C35: whenever initialize() freshly establishes a connection (the device
\* was not connected when it was called), authenticated is false when it
\* returns.
C35_FreshConnectionIsUnauthenticated ==
  (Returned("initialize") /\ result = "Ok" /\ ~connectedBefore /\ Reconnected)
    => ~authenticated

\* the running (or last) call has written a challenge response
ResponseWritten ==
  \E i \in 1..Len(io) :
    /\ io[i].k = "write"
    /\ io[i].ok
    /\ Len(io[i].data) = 18
    /\ SubSeq(io[i].data, 1, 2) = <<3, 0>>

\* C36: authenticate() returns success only after it has written a
\* challenge response (0x03, 0x00, ...) during that same call; a success
\* frame received before any challenge frame does not set authenticated.
C36_SuccessOnlyAfterResponse ==
  (Returned("authenticate") /\ result = "Ok") => ResponseWritten

\* the response a call writes to a challenge frame that is the first frame it
\* reads, i.e. one read into the zeroed buffer
FirstFrameResponse(key, frame) ==
  LET b == frame \o Zeros(NotifyMtu - Len(frame))
  IN  <<3, 0>> \o SubSeq(Unwrap(encrypt_value(key, SubSeq(b, 4, 19))), 1, 16)

\* C37: the 16 bytes that authenticate() encrypts in answer to a challenge
\* frame are bytes 3..19 of that same frame only: whatever frames were read
\* before it, the response is the one written when the challenge frame is the
\* first frame of the call, also when the frame is shorter than 19 bytes.
C37_ResponseDependsOnChallengeOnly ==
  (pc = "auth_write" /\ pending[1] = 3) =>
    pending = FirstFrameResponse(auth_key, SubSeq(buf, 1, len))

\* C38: for every byte sequence the device may return, including an empty
\* one or one shorter than the record layout, get_battery, get_band_time,
\* get_current_activity and get_firmware_revision each return either a
\* decoded value or an error value; none aborts the program.
C38_ShortReadsNeverAbort ==
  op \in {"get_battery", "get_band_time", "get_current_activity",
          "get_firmware_revision"} =>
    /\ pc = "idle"
    /\ result # "Pending"
    /\ result = "Ok" <=> IsSome(ret)

\* C32: whenever a band is already current and set_new_band is called for
\* another device, a disconnect request is issued for the old band before the
\* new band becomes current.
C32_OldBandDisconnectedBeforeReplace ==
  [][(current_device # "none" /\ current_device' # current_device)
       => current_device \in disconnected]_vars

\* C33: the store mutex is never held by a future that is suspended at an
\* await point (in every state of the window every future is suspended).
C33_StoreNotHeldAcrossAwait ==
  main_loop = "running" => store_mutex = 0

\* future t awaits the guard of current_device
AwaitsGuard(t) == spawned[t].pc \in {"read", "write"}

\* the media button listener of the current band is running
ListenerRunning ==
  \E t \in TaskIds : spawned[t].kind = "start_band_media" /\ spawned[t].pc = "select"

\* C39: while a band is current and its media button listener is running,
\* every future that awaits exclusive access to the current device (the
\* Disconnect action, a new auth key) eventually obtains it, and the futures
\* that only read the current device are not blocked forever behind it; the
\* runs in which the main loop stops are set aside.
C39_GuardEventuallyGranted ==
  \A t \in TaskIds :
    (current_device # "none" /\ ListenerRunning /\ AwaitsGuard(t))
      ~> (~AwaitsGuard(t) \/ main_loop # "running")

\* C40: two set_new_band calls that overlap in time never reach a failed
\* borrow of the band_closed cell.
C40_BandClosedBorrowNeverFails == main_loop # "panicked"

====
